---- MODULE Spec2Model ----
(***************************************************************************)
(* Model of the recommendation pipeline of mate-recommendation-algo:       *)
(* CandidateGenerator (recall.py), the calendar scorer (vedic_calendar.py),*)
(* build_features (features.py), AdditiveRanker (ranker.py) and            *)
(* RecommenderPipeline (pipeline.py).                                      *)
(*                                                                         *)
(* Representation.                                                         *)
(*  - A Python str is a sequence of one-character strings, so that         *)
(*    strip(), lower(), split(','), len() and substring tests are computed *)
(*    and not assumed.                                                     *)
(*  - A cell of the dataset is a tagged value: a str, an int, or the float *)
(*    NaN that pandas.read_csv gives an empty cell.                        *)
(*  - Floats are exact rationals over fixed denominators (SimDen, ScoreDen,*)
(*    ConfDen, FinalDen); weights of the config are in hundredths.         *)
(***************************************************************************)
EXTENDS Integers, Sequences, FiniteSets, TLC

VARIABLES
    df,          \* the dataset read at construction: a sequence of rows
    config,      \* the config document read at construction
    sim_matrix,  \* CandidateGenerator.sim_matrix
    np_ties,     \* what the sorting of the numeric library does with equal keys
    feats,       \* a feature table handed to AdditiveRanker.score directly
    req,         \* the request the process was started to serve: [uid, k]
    out,         \* the call made and what it returned or raised
    launch,      \* what the process is started on: the entry point, the
                 \* header of the CSV file and the kind of config document
    pipe,        \* the RecommenderPipeline object: whether __init__ has run
                 \* and how it ended, and the number of calls served
    survey,      \* the traits and engagement tables of survey_matchmaker
    person       \* the birth details compute_te of te_features is called on

vars == <<df, config, sim_matrix, np_ties, feats, req, out, launch, pipe, survey, person>>

\* ------------------------------------------------------------------------
\* Bounds of the model
\* ------------------------------------------------------------------------
MaxUsers == 3
MaxK == 2
\* the calls a serving process (server.py, main.py run_interactive) answers
MaxCalls == 2

\* ------------------------------------------------------------------------
\* Cells of the dataset
\* ------------------------------------------------------------------------
StrCell(s) == [kind |-> "str", s |-> s, n |-> 0]
IntCell(i) == [kind |-> "int", s |-> <<>>, n |-> i]
NaN == [kind |-> "nan", s |-> <<>>, n |-> 0]
\* a column the CSV does not have: dict.get gives its default
Absent == [kind |-> "absent", s |-> <<>>, n |-> 0]

Max2(a, b) == IF a >= b THEN a ELSE b
Min2(a, b) == IF a <= b THEN a ELSE b
Abs(a) == IF a < 0 THEN -a ELSE a

\* ------------------------------------------------------------------------
\* Python str methods, on sequences of characters
\* ------------------------------------------------------------------------
UpperChars == <<"A","B","C","D","E","F","G","H","I","J","K","L","M",
                "N","O","P","Q","R","S","T","U","V","W","X","Y","Z">>
LowerChars == <<"a","b","c","d","e","f","g","h","i","j","k","l","m",
                "n","o","p","q","r","s","t","u","v","w","x","y","z">>

LowerMap ==
    [c \in {UpperChars[i] : i \in DOMAIN UpperChars} |->
        LowerChars[CHOOSE i \in DOMAIN UpperChars : UpperChars[i] = c]]

LowerChar(c) == IF c \in DOMAIN LowerMap THEN LowerMap[c] ELSE c

PyLower(s) == [i \in 1..Len(s) |-> LowerChar(s[i])]

IsSpace(c) == c = " "

RECURSIVE LStrip(_)
LStrip(s) == IF s # <<>> /\ IsSpace(Head(s)) THEN LStrip(Tail(s)) ELSE s

RECURSIVE RStrip(_)
RStrip(s) ==
    IF s # <<>> /\ IsSpace(s[Len(s)]) THEN RStrip(SubSeq(s, 1, Len(s) - 1)) ELSE s

PyStrip(s) == RStrip(LStrip(s))

\* s.split(','): the pieces between commas, empty pieces kept
RECURSIVE PySplit(_, _)
PySplit(s, cur) ==
    IF s = <<>> THEN <<cur>>
    ELSE IF Head(s) = "," THEN <<cur>> \o PySplit(Tail(s), <<>>)
    ELSE PySplit(Tail(s), Append(cur, Head(s)))

\* tok in v, for two strs
IsSubstr(tok, v) ==
    \E i \in 0..(Len(v) - Len(tok)) : SubSeq(v, i + 1, i + Len(tok)) = tok

Range(f) == {f[i] : i \in DOMAIN f}

Reverse(s) == [i \in 1..Len(s) |-> s[Len(s) + 1 - i]]

\* str(x) of a cell
PyDigit(d) == <<"0","1","2","3","4","5","6","7","8","9">>[d + 1]

RECURSIVE PyNatStr(_)
PyNatStr(i) == IF i < 10 THEN <<PyDigit(i)>> ELSE Append(PyNatStr(i \div 10), PyDigit(i % 10))

PyStr(x) ==
    CASE x.kind = "str" -> x.s
      [] x.kind = "nan" -> <<"n","a","n">>
      [] x.kind = "int" -> IF x.n < 0 THEN <<"-">> \o PyNatStr(-x.n) ELSE PyNatStr(x.n)
      [] x.kind = "absent" -> <<"N","o","n","e">>

\* bool(x) of a cell: NaN is a non-zero float, hence true
Truthy(x) ==
    CASE x.kind = "str" -> x.s # <<>>
      [] x.kind = "nan" -> TRUE
      [] x.kind = "int" -> x.n # 0
      [] x.kind = "absent" -> FALSE

\* dict.get(key, default): the default stands in for a missing column
Get(r, key, default) == IF r[key].kind = "absent" THEN default ELSE r[key]

\* ------------------------------------------------------------------------
\* features.py: helpers.  Each helper that can raise has a ...Raises
\* predicate beside it; the value is meaningful only where it is false.
\* ------------------------------------------------------------------------
EmptyStr == StrCell(<<>>)

\* (x or "").strip().lower(): a true value that is no str has no strip()
NormalizeRaises(x) == Truthy(x) /\ x.kind # "str"

_normalize_text(x) == IF Truthy(x) /\ x.kind = "str" THEN PyLower(PyStrip(x.s)) ELSE <<>>

_tag_set(x) ==
    IF x.kind # "str" THEN {}
    ELSE LET parts == PySplit(x.s, <<>>)
         IN {PyLower(PyStrip(parts[i])) : i \in {j \in DOMAIN parts : PyStrip(parts[j]) # <<>>}}

\* buckets 0.0 / 0.5 / 1.0 in hundredths
_energy_bucket(x) ==
    LET v == _normalize_text(x)
    IN IF v \in {<<"i","n","t","r","o","v","e","r","t">>, <<"l","o","w">>} THEN 0
       ELSE IF v \in {<<"e","x","t","r","o","v","e","r","t">>, <<"h","i","g","h">>,
                      <<"e","x","t","r","a","v","e","r","t">>} THEN 100
       ELSE 50

_humor_is_dark(x) ==
    LET v == _normalize_text(x)
    IN \E tok \in {<<"d","a","r","k">>, <<"e","d","g","y">>,
                   <<"s","a","r","c","a","s","t","i","c">>} : IsSubstr(tok, v)

_humor_is_wholesome(x) ==
    LET v == _normalize_text(x)
    IN \E tok \in {<<"w","h","o","l","e","s","o","m","e">>, <<"c","l","e","a","n">>,
                   <<"l","i","g","h","t">>} : IsSubstr(tok, v)

_risk_bucket(x) ==
    LET v == _normalize_text(x)
    IN IF v \in {<<"l","o","w">>, <<"c","a","u","t","i","o","u","s">>} THEN 0
       ELSE IF v \in {<<"h","i","g","h">>, <<"b","o","l","d">>,
                      <<"a","d","v","e","n","t","u","r","o","u","s">>} THEN 100
       ELSE 50

\* the list of tokens with .lower() left out
_parse_gender_interest_cased(x) ==
    IF ~Truthy(x) \/ x.kind # "str" THEN <<>>
    ELSE SelectSeq([i \in DOMAIN PySplit(x.s, <<>>) |-> PyStrip(PySplit(x.s, <<>>)[i])],
                   LAMBDA t : t # <<>>)

\* the list of tokens; [] for a false value or a value that is no str
_parse_gender_interest(x) ==
    IF ~Truthy(x) \/ x.kind # "str" THEN <<>>
    ELSE LET parts == PySplit(x.s, <<>>)
         IN SelectSeq([i \in DOMAIN parts |-> PyLower(PyStrip(parts[i]))],
                      LAMBDA t : t # <<>>)

\* latitudes in 1/10000 degree; longitude and time zone are read by nothing
INDIA_CITY_MAP(key) ==
    CASE key \in {<<"d","e","l","h","i">>, <<"n","e","w"," ","d","e","l","h","i">>} -> 286139
      [] key = <<"m","u","m","b","a","i">> -> 190760
      [] key \in {<<"b","e","n","g","a","l","u","r","u">>,
                  <<"b","a","n","g","a","l","o","r","e">>} -> 129716
      [] key = <<"c","h","e","n","n","a","i">> -> 130827
      [] key = <<"k","o","l","k","a","t","a">> -> 225726
      [] key = <<"h","y","d","e","r","a","b","a","d">> -> 173850
      [] OTHER -> 286139

_city_geocodeRaises(name) == Truthy(name) /\ NormalizeRaises(name)

_city_geocode(name) ==
    IF ~Truthy(name) THEN INDIA_CITY_MAP(<<"d","e","l","h","i">>)
    ELSE INDIA_CITY_MAP(_normalize_text(name))

\* int(s) of a str: optional sign, then digits, blanks around allowed
DigitMap == [c \in {PyDigit(d) : d \in 0..9} |-> CHOOSE d \in 0..9 : PyDigit(d) = c]
IsDigit(c) == c \in DOMAIN DigitMap
DigitVal(c) == DigitMap[c]

RECURSIVE DigitsVal(_)
DigitsVal(s) == IF s = <<>> THEN 0 ELSE 10 * DigitsVal(SubSeq(s, 1, Len(s) - 1)) + DigitVal(s[Len(s)])

PyIntOfStr(s) ==
    LET t == PyStrip(s)
        neg == t # <<>> /\ Head(t) = "-"
        body == IF t # <<>> /\ Head(t) \in {"-", "+"} THEN Tail(t) ELSE t
    IN IF body # <<>> /\ Len(body) <= 9 /\ \A i \in DOMAIN body : IsDigit(body[i])
       THEN [ok |-> TRUE, v |-> IF neg THEN -DigitsVal(body) ELSE DigitsVal(body)]
       ELSE [ok |-> FALSE, v |-> 0]

\* int(x) of a cell: int(float('nan')) and int('abc') raise ValueError
PyIntRaises(x) ==
    CASE x.kind = "int" -> FALSE
      [] x.kind = "str" -> ~PyIntOfStr(x.s).ok
      [] OTHER -> TRUE

PyInt(x) ==
    CASE x.kind = "int" -> x.n
      [] x.kind = "str" -> PyIntOfStr(x.s).v
      [] OTHER -> 0

None == [some |-> FALSE, v |-> 0]
Some(v) == [some |-> TRUE, v |-> v]

\* _int_or_none with 0 returned where int() raises
_int_or_none_zero(x) ==
    IF x.kind = "absent" \/ x = EmptyStr THEN None
    ELSE IF PyIntRaises(x) THEN Some(0) ELSE Some(PyInt(x))

_int_or_none(x) ==
    IF x.kind = "absent" \/ x = EmptyStr \/ PyIntRaises(x) THEN None ELSE Some(PyInt(x))

\* int(u.get("age", 0) or 0)
AgeRaises(x) == Truthy(x) /\ PyIntRaises(x)
AgeOf(x) == IF Truthy(x) THEN PyInt(x) ELSE 0

S_any == <<"a","n","y">>

\* _hard_filter_flags: the three flags, and whether computing them raises
GenderChecked(u, filters) ==
    LET u_interest == _parse_gender_interest(Get(u, "gender_interest", Absent))
    IN filters.gender /\ u_interest # <<>> /\ S_any \notin Range(u_interest)

CityChecked(u, filters) ==
    LET pref == _normalize_text(Get(u, "city_interest", StrCell(S_any)))
    IN filters.city /\ pref # <<>> /\ pref # S_any

_hard_filter_flagsRaises(u, c, filters) ==
    \/ GenderChecked(u, filters) /\ NormalizeRaises(Get(c, "gender", EmptyStr))
    \/ filters.city /\ NormalizeRaises(Get(u, "city_interest", StrCell(S_any)))
    \/ CityChecked(u, filters) /\ NormalizeRaises(Get(c, "city", EmptyStr))

_hard_filter_flags(u, c, filters) ==
    LET u_interest == _parse_gender_interest(Get(u, "gender_interest", Absent))
        gender_ok ==
            IF GenderChecked(u, filters)
            THEN _normalize_text(Get(c, "gender", EmptyStr)) \in Range(u_interest)
            ELSE TRUE
        u_min == _int_or_none(Get(u, "min_age_pref", Absent))
        u_max == _int_or_none(Get(u, "max_age_pref", Absent))
        c_age == LET a == _int_or_none(Get(c, "age", Absent)) IN IF a.some THEN a.v ELSE 0
        age_ok ==
            IF filters.age
            THEN ~(u_min.some /\ c_age < u_min.v) /\ ~(u_max.some /\ c_age > u_max.v)
            ELSE TRUE
        pref == _normalize_text(Get(u, "city_interest", StrCell(S_any)))
        city_ok ==
            IF CityChecked(u, filters)
            THEN _normalize_text(Get(c, "city", EmptyStr)) = pref
            ELSE TRUE
    IN [gender |-> gender_ok, age |-> age_ok, city |-> city_ok]

\* ------------------------------------------------------------------------
\* vedic_calendar.py
\* ------------------------------------------------------------------------
IsLeap(y) == (y % 4 = 0 /\ y % 100 # 0) \/ y % 400 = 0

DaysInMonth(y, m) ==
    IF m = 2 THEN (IF IsLeap(y) THEN 29 ELSE 28)
    ELSE IF m \in {4, 6, 9, 11} THEN 30 ELSE 31

RECURSIVE DaysBefore(_, _)
DaysBefore(y, m) == IF m <= 1 THEN 0 ELSE DaysBefore(y, m - 1) + DaysInMonth(y, m - 1)

\* the field of strptime's %m: 1[0-2] | 0[1-9] | [1-9]
MonthField(s) ==
    IF Len(s) >= 2 /\ IsDigit(s[1]) /\ IsDigit(s[2]) /\ DigitsVal(SubSeq(s, 1, 2)) \in 1..12
    THEN 2
    ELSE IF Len(s) >= 1 /\ IsDigit(s[1]) /\ s[1] # "0" THEN 1 ELSE 0

\* the field of strptime's %d: 3[01] | [12]\d | 0[1-9] | [1-9] | " "[1-9]
DayField(s) ==
    IF Len(s) >= 2 /\ IsDigit(s[1]) /\ IsDigit(s[2]) /\ DigitsVal(SubSeq(s, 1, 2)) \in 1..31
    THEN 2
    ELSE IF Len(s) >= 1 /\ IsDigit(s[1]) /\ s[1] # "0" THEN 1
    ELSE IF Len(s) >= 2 /\ s[1] = " " /\ IsDigit(s[2]) /\ s[2] # "0" THEN 2
    ELSE 0

NoDate == [ok |-> FALSE, y |-> 0, m |-> 0, d |-> 0]

\* datetime.strptime(d, "%Y-%m-%d").date(), field by field; ok is false
\* where it raises ValueError
DateOf(y, m, d) ==
    IF y >= 1 /\ d <= DaysInMonth(y, m) THEN [ok |-> TRUE, y |-> y, m |-> m, d |-> d]
    ELSE NoDate

ParseDay(y, m, ds) ==
    IF DayField(ds) = 0 \/ DayField(ds) # Len(ds) THEN NoDate
    ELSE DateOf(y, m, DigitsVal(SelectSeq(ds, IsDigit)))

ParseMonth(y, rest, ml) ==
    IF ml = 0 \/ Len(rest) < ml + 1 THEN NoDate
    ELSE IF rest[ml + 1] # "-" THEN NoDate
    ELSE ParseDay(y, DigitsVal(SubSeq(rest, 1, ml)), SubSeq(rest, ml + 2, Len(rest)))

ParseAfterYear(y, rest) == ParseMonth(y, rest, MonthField(rest))

_parse_date(s) ==
    IF Len(s) < 5 THEN NoDate
    ELSE IF ~((\A i \in 1..4 : IsDigit(s[i])) /\ s[5] = "-") THEN NoDate
    ELSE ParseAfterYear(DigitsVal(SubSeq(s, 1, 4)), SubSeq(s, 6, Len(s)))

tm_yday(dt) == DaysBefore(dt.y, dt.m) + dt.d

\* denominators of the exact arithmetic
ScoreDen == 10 * 365
ConfDen == 3000000 * 455

\* the blend with the weights 0.6 and 0.4 the other way round
KernelBlendSwapped(diff) ==
    Min2(ScoreDen,
         Max2(0, 4 * Max2(365 - 4 * diff, 0) + 6 * Max2(365 - Abs(4 * diff - 730), 0)))

\* vedic_lite_weighted_score, in 1/ScoreDen:
\*   same = 1 - diff/91.25 = (365 - 4 diff)/365
\*   opp  = 1 - |diff - 182.5|/91.25 = (365 - |4 diff - 730|)/365
\*   score = min(1, max(0, 0.6 max(same, 0) + 0.4 max(opp, 0)))
KernelBlend(diff) ==
    Min2(ScoreDen,
         Max2(0, 6 * Max2(365 - 4 * diff, 0) + 4 * Max2(365 - Abs(4 * diff - 730), 0)))

\* diff = min(diff, 365 - diff)
WrapDiff(d0) == Min2(d0, 365 - d0)

ScoreOfDates(du, dc) ==
    IF ~du.ok \/ ~dc.ok THEN 0
    ELSE KernelBlend(WrapDiff(Abs(tm_yday(du) - tm_yday(dc))))

vedic_lite_weighted_score(dob_user, dob_cand) ==
    ScoreOfDates(_parse_date(dob_user), _parse_date(dob_cand))

hindu_date_from_dateRaises(d) == ~_parse_date(d).ok

\* the "confidence" of hindu_date_from_date, in 1/ConfDen:
\*   lat_factor = max(0.6, 1 - |lat|/180)        = lf / 1800000
\*   equinox_band = 1 - (|doy % 182 - 91|/91)*0.2 = band / 455
\*   0.6 * lat_factor * equinox_band + 0.2 = (lf * band + 600000 * 455) / ConfDen
\* the confidence with the constant 0.2 left out
ConfidenceOfNoOffset(doy, latitude) ==
    Max2(0, Min2(ConfDen, Max2(1080000, 1800000 - Abs(latitude))
                          * (455 - Abs((doy % 182) - 91))))

ConfidenceOf(doy, latitude) ==
    Max2(0, Min2(ConfDen, Max2(1080000, 1800000 - Abs(latitude))
                          * (455 - Abs((doy % 182) - 91)) + 600000 * 455))

hindu_date_from_date(d, latitude) == ConfidenceOf(tm_yday(_parse_date(d)), latitude)

\* ------------------------------------------------------------------------
\* features.py: build_features
\* ------------------------------------------------------------------------
\* _normalize_text(str(x)): str() of any cell is a str, so this never raises
NormStr(x) == PyLower(PyStrip(PyStr(x)))

\* by_id.get(int(uid)): the index of the row of the dataset, 0 for none
\* (a later row of the same id replaces an earlier one in the dict)
ById(d, uid) ==
    LET hits == {i \in DOMAIN d : d[i].user_id = uid}
    IN IF hits = {} THEN 0 ELSE CHOOSE i \in hits : \A j \in hits : j <= i

\* lines 126-131 and 141-146: the fields read of one user
FieldsRaise(r) ==
    \/ AgeRaises(Get(r, "age", IntCell(0)))
    \/ NormalizeRaises(Get(r, "social_energy", EmptyStr))
    \/ NormalizeRaises(Get(r, "humor_style", EmptyStr))
    \/ NormalizeRaises(Get(r, "risk_taking", EmptyStr))

\* line 166
DatesUsable(u_dob, c_dob) ==
    u_dob # <<>> /\ c_dob # <<>> /\ Len(u_dob) = 10 /\ Len(c_dob) = 10

\* lines 169-170 stand outside the try block
VedicRaises(u, c) ==
    /\ DatesUsable(NormStr(Get(u, "birth_date", EmptyStr)),
                   NormStr(Get(c, "birth_date", EmptyStr)))
    /\ (_city_geocodeRaises(u.birth_city) \/ _city_geocodeRaises(c.birth_city))

\* the bonus 0.15 of a present birth time, in 1/ConfDen
TimeBonus == (ConfDen \div 100) * 15

WithTimeBonus(r, conf) ==
    IF NormStr(Get(r, "birth_time", EmptyStr)) # <<>> THEN Min2(ConfDen, conf + TimeBonus)
    ELSE conf

SideConfidence(r, dob) ==
    WithTimeBonus(r, hindu_date_from_date(dob, _city_geocode(r.birth_city)))

\* lines 161-184: [score, conf], in 1/ScoreDen and 1/ConfDen
SignalsOfDates(u, c, u_dob, c_dob) ==
    IF ~DatesUsable(u_dob, c_dob) THEN [score |-> 0, conf |-> 0]
    ELSE IF hindu_date_from_dateRaises(u_dob) THEN [score |-> 0, conf |-> 0]
    ELSE IF hindu_date_from_dateRaises(c_dob) THEN [score |-> 0, conf |-> 0]
    ELSE [score |-> vedic_lite_weighted_score(u_dob, c_dob),
          conf |-> Max2(0, Min2(ConfDen,
                       Min2(SideConfidence(u, u_dob), SideConfidence(c, c_dob))))]

VedicSignals(u, c) ==
    SignalsOfDates(u, c, NormStr(Get(u, "birth_date", EmptyStr)),
                         NormStr(Get(c, "birth_date", EmptyStr)))

\* buckets that merely differ
OppositeLoose(a, b) == a # b

Opposite(a, b) == (a <= 25 /\ b >= 75) \/ (a >= 75 /\ b <= 25)

\* the indicator set for two users of the same bucket
energy_comp_alike(u, c) ==
    IF _energy_bucket(Get(u, "social_energy", EmptyStr))
       = _energy_bucket(Get(c, "social_energy", EmptyStr)) THEN 1 ELSE 0

energy_comp(u, c) ==
    IF Opposite(_energy_bucket(Get(u, "social_energy", EmptyStr)),
                _energy_bucket(Get(c, "social_energy", EmptyStr))) THEN 1 ELSE 0

\* the indicator set only when the querying user is the dark-leaning one
humor_comp_directed(u, c) ==
    IF /\ _humor_is_dark(Get(u, "humor_style", EmptyStr))
       /\ _humor_is_wholesome(Get(c, "humor_style", EmptyStr))
    THEN 1 ELSE 0

humor_comp(u, c) ==
    IF \/ /\ _humor_is_dark(Get(u, "humor_style", EmptyStr))
          /\ _humor_is_wholesome(Get(c, "humor_style", EmptyStr))
       \/ /\ _humor_is_wholesome(Get(u, "humor_style", EmptyStr))
          /\ _humor_is_dark(Get(c, "humor_style", EmptyStr))
    THEN 1 ELSE 0

risk_comp(u, c) ==
    IF Opposite(_risk_bucket(Get(u, "risk_taking", EmptyStr)),
                _risk_bucket(Get(c, "risk_taking", EmptyStr))) THEN 1 ELSE 0

\* comp_mix.get(key, default), in hundredths
MixGet(comp_mix, key, default) == IF key \in DOMAIN comp_mix THEN comp_mix[key] ELSE default

\* lines 186-201
MakeRow(u, c, base_sim, comp_mix, fflags, ec, hc, rc, v) ==
    [user_id |-> u.user_id,
     match_id |-> c.user_id,
     base_sim |-> base_sim,
     tag_overlap |-> Cardinality(_tag_set(Get(u, "tags", EmptyStr))
                                 \cap _tag_set(Get(c, "tags", EmptyStr))),
     age_gap |-> Abs(AgeOf(Get(u, "age", IntCell(0))) - AgeOf(Get(c, "age", IntCell(0)))),
     energy_comp |-> ec,
     humor_comp |-> hc,
     risk_comp |-> rc,
     comp_index |-> MixGet(comp_mix, "energy", 34) * ec + MixGet(comp_mix, "humor", 33) * hc
                    + MixGet(comp_mix, "risk", 33) * rc,
     filter_gender |-> fflags.gender,
     filter_age |-> fflags.age,
     filter_city |-> fflags.city,
     vedic_lite_score |-> v.score,
     vedic_confidence |-> v.conf]

\* lines 141-201: the row of a pair that passed the filters
FeatureRow(u, c, base_sim, comp_mix, fflags) ==
    MakeRow(u, c, base_sim, comp_mix, fflags,
            energy_comp(u, c), humor_comp(u, c), risk_comp(u, c), VedicSignals(u, c))

FlagsPass(fflags) == fflags.gender /\ fflags.age /\ fflags.city

\* one candidate of one user: does the loop body raise, and the rows it appends
KnownPairRaises(u, c, filters) ==
    \/ _hard_filter_flagsRaises(u, c, filters)
    \/ /\ FlagsPass(_hard_filter_flags(u, c, filters))
       /\ (FieldsRaise(c) \/ VedicRaises(u, c))

PairRaises(d, u, cand, filters) ==
    ById(d, cand[1]) # 0 /\ KnownPairRaises(u, d[ById(d, cand[1])], filters)

RowIfPass(u, c, base_sim, comp_mix, fflags) ==
    IF FlagsPass(fflags) THEN <<FeatureRow(u, c, base_sim, comp_mix, fflags)>> ELSE <<>>

PairRows(d, u, cand, comp_mix, filters) ==
    IF ById(d, cand[1]) = 0 THEN <<>>
    ELSE RowIfPass(u, d[ById(d, cand[1])], cand[2], comp_mix,
                   _hard_filter_flags(u, d[ById(d, cand[1])], filters))

RECURSIVE CandRows(_, _, _, _, _)
CandRows(d, u, cands, comp_mix, filters) ==
    IF cands = <<>> THEN <<>>
    ELSE PairRows(d, u, Head(cands), comp_mix, filters)
         \o CandRows(d, u, Tail(cands), comp_mix, filters)

KnownEntryRaises(d, u, cands, filters) ==
    \/ FieldsRaise(u)
    \/ \E i \in DOMAIN cands : PairRaises(d, u, cands[i], filters)

\* by_id[uid] in place of by_id.get(uid): an unknown user id is a KeyError
EntryRaisesStrict(d, entry, filters) ==
    ById(d, entry.uid) = 0 \/ KnownEntryRaises(d, d[ById(d, entry.uid)], entry.cands, filters)

EntryRaises(d, entry, filters) ==
    ById(d, entry.uid) # 0 /\ KnownEntryRaises(d, d[ById(d, entry.uid)], entry.cands, filters)

RECURSIVE EntryRows(_, _, _, _)
EntryRows(d, candidates, comp_mix, filters) ==
    IF candidates = <<>> THEN <<>>
    ELSE (IF ById(d, Head(candidates).uid) = 0 THEN <<>>
          ELSE CandRows(d, d[ById(d, Head(candidates).uid)], Head(candidates).cands,
                        comp_mix, filters))
         \o EntryRows(d, Tail(candidates), comp_mix, filters)

\* candidates: the dict, as the sequence of its items [uid, cands] in
\* insertion order; cands a sequence of <<candidate id, base similarity>>
build_features(d, candidates, comp_mix, filters) ==
    IF \E i \in DOMAIN candidates : EntryRaises(d, candidates[i], filters)
    THEN [raised |-> TRUE, rows |-> <<>>]
    ELSE [raised |-> FALSE, rows |-> EntryRows(d, candidates, comp_mix, filters)]

\* ------------------------------------------------------------------------
\* numpy and pandas sorting
\* ------------------------------------------------------------------------
\* What an argsort does with equal keys is a property of the library build:
\* "stable" keeps them in input order, "reversed" stands for an unstable
\* kind that does not.  np_ties is fixed for the life of the process.
TieKinds == {"stable", "reversed"}

\* numpy.argsort(vals): the indices of vals in ascending order of value
ArgSort(vals, ties) ==
    LET Before(i, j) ==
            \/ vals[i] < vals[j]
            \/ vals[i] = vals[j] /\ (IF ties = "stable" THEN i < j ELSE i > j)
    IN [r \in 1..Len(vals) |->
          CHOOSE i \in 1..Len(vals) :
              Cardinality({j \in 1..Len(vals) : Before(j, i)}) = r - 1]

\* pandas nargsort(ascending=False): reverse, argsort, index back, reverse
NargsortDesc(vals, ties) ==
    Reverse([i \in 1..Len(vals) |-> Len(vals) + 1 - ArgSort(Reverse(vals), ties)[i]])

\* ------------------------------------------------------------------------
\* recall.py: CandidateGenerator
\* ------------------------------------------------------------------------
\* similarities are in 1/SimDen; NegInf stands for -numpy.inf
SimDen == 10
NegInf == -1000

user_ids(d) == [i \in DOMAIN d |-> d[i].user_id]

\* id_to_idx: 0 for an id that is not a key
id_to_idx(d, uid) == ById(d, uid)

\* str.startswith
StartsWith(s, prefix) == Len(s) >= Len(prefix) /\ SubSeq(s, 1, Len(prefix)) = prefix

\* every column taken for an embedding column
every_column(columns) == columns

\* find_embedding_columns: the columns named t_* or e_*; it raises
\* ValueError when there is none (sorting a set of names changes nothing)
find_embedding_columns(columns) ==
    {c \in columns : StartsWith(c, <<"t","_">>) \/ StartsWith(c, <<"e","_">>)}

\* sim_matrix after a call of topk_for_user with the row taken without
\* .copy(): the write "sims[idx] = -inf" lands in the table
SimAfterTopkInPlace(d, sim, user_id) ==
    IF id_to_idx(d, user_id) = 0 THEN sim
    ELSE [sim EXCEPT ![<<id_to_idx(d, user_id), id_to_idx(d, user_id)>>] = NegInf]

\* sim_matrix after a call of topk_for_user: the row is copied (line 38)
\* before the write of line 40, so the table is what it was
SimAfterTopk(d, sim, user_id) == sim

\* sim_matrix after topk_for_all: one call per row of the dataset, from 
\* row i on
RECURSIVE SimAfterTopkAll(_, _, _)
SimAfterTopkAll(d, sim, i) ==
    IF i > Len(d) THEN sim
    ELSE SimAfterTopkAll(d, SimAfterTopk(d, sim, d[i].user_id), i + 1)

\* the row of similarities with the line "sims[idx] = -inf" left out
SimsRowUnmasked(d, sim, idx) == [j \in 1..Len(d) |-> sim[<<idx, j>>]]

\* sims = sim_matrix[idx].copy(); sims[idx] = -inf
SimsRow(d, sim, idx) == [j \in 1..Len(d) |-> IF j = idx THEN NegInf ELSE sim[<<idx, j>>]]

\* numpy.argpartition(sims, -k_eff)[-k_eff:]: the k_eff largest, which of
\* several equal ones and in which order being the library's choice
Argpartition(sims, k_eff, ties) ==
    SubSeq(ArgSort(sims, ties), Len(sims) - k_eff + 1, Len(sims))

\* top_idx[numpy.argsort(sims[top_idx])[::-1]]
TopSorted(sims, top_idx, ties) ==
    [i \in DOMAIN top_idx |->
        top_idx[Reverse(ArgSort([r \in DOMAIN top_idx |-> sims[top_idx[r]]], ties))[i]]]

CandList(d, sims, top_sorted) ==
    [i \in DOMAIN top_sorted |-> <<d[top_sorted[i]].user_id, sims[top_sorted[i]]>>]

TopkOfRow(d, sims, k_eff, ties) ==
    IF k_eff <= 0 THEN <<>>
    ELSE CandList(d, sims, TopSorted(sims, Argpartition(sims, k_eff, ties), ties))

\* topk_for_user with k_eff = k: neither the population nor zero bounds it
topk_for_user_uncapped(d, sim, ties, user_id, k) ==
    IF id_to_idx(d, user_id) = 0 THEN <<>>
    ELSE CandList(d, SimsRow(d, sim, id_to_idx(d, user_id)),
                  TopSorted(SimsRow(d, sim, id_to_idx(d, user_id)),
                            Argpartition(SimsRow(d, sim, id_to_idx(d, user_id)),
                                         Min2(Abs(k), Len(d)), ties), ties))

topk_for_user(d, sim, ties, user_id, k) ==
    IF id_to_idx(d, user_id) = 0 THEN <<>>
    ELSE TopkOfRow(d, SimsRow(d, sim, id_to_idx(d, user_id)), Min2(k, Len(d) - 1), ties)

topk_for_all(d, sim, ties, k) ==
    [i \in DOMAIN d |-> [uid |-> d[i].user_id,
                         cands |-> topk_for_user(d, sim, ties, d[i].user_id, k)]]

\* ------------------------------------------------------------------------
\* ranker.py: AdditiveRanker
\* ------------------------------------------------------------------------
\* final scores are in 1/FinalDen: a weight (1/100) times a shrink factor
\* (1/100) times a calendar score (1/ScoreDen)
FinalDen == 100 * 100 * ScoreDen

\* the weight with ">" in place of ">=": a confidence equal to the threshold
\* counts as low
vedic_weight_strict(cfg, conf) ==
    IF conf > cfg.min_conf * (ConfDen \div 100)
    THEN cfg.w_vedic * 100
    ELSE cfg.w_vedic * cfg.low_conf_shrink

\* the weight with the shrink factor left out of the low-confidence branch
vedic_weight_unshrunk(cfg, conf) == cfg.w_vedic * 100

\* numpy.where(conf >= min_conf, w_vedic, w_vedic * low_shrink), in 1/10000
vedic_weight(cfg, conf) ==
    IF conf >= cfg.min_conf * (ConfDen \div 100)
    THEN cfg.w_vedic * 100
    ELSE cfg.w_vedic * cfg.low_conf_shrink

\* the weighted sum held to [0, 1]
final_score_clamped(cfg, row) ==
    Min2(FinalDen, Max2(0,
        cfg.w_sim * row.base_sim * (FinalDen \div (100 * SimDen))
        + cfg.w_comp * row.comp_index * (FinalDen \div (100 * 100))
        + vedic_weight(cfg, row.vedic_confidence) * row.vedic_lite_score
        - cfg.age_penalty * row.age_gap * (FinalDen \div 100)))

\* the score with the legacy terms w_nov * novelty + w_pri * prior added and
\* a bonus of one hundredth per shared tag
final_score_legacy(cfg, row) ==
    cfg.w_sim * row.base_sim * (FinalDen \div (100 * SimDen))
    + cfg.w_comp * row.comp_index * (FinalDen \div (100 * 100))
    + vedic_weight(cfg, row.vedic_confidence) * row.vedic_lite_score
    - cfg.age_penalty * row.age_gap * (FinalDen \div 100)
    + (cfg.w_nov * cfg.novelty_value + cfg.w_pri * cfg.prior_value) * (FinalDen \div (100 * 100))
    + row.tag_overlap * (FinalDen \div 100)

final_score(cfg, row) ==
    cfg.w_sim * row.base_sim * (FinalDen \div (100 * SimDen))
    + cfg.w_comp * row.comp_index * (FinalDen \div (100 * 100))
    + vedic_weight(cfg, row.vedic_confidence) * row.vedic_lite_score
    - cfg.age_penalty * row.age_gap * (FinalDen \div 100)

Scored(cfg, row) ==
    [user_id |-> row.user_id, match_id |-> row.match_id, base_sim |-> row.base_sim,
     tag_overlap |-> row.tag_overlap, age_gap |-> row.age_gap,
     energy_comp |-> row.energy_comp, humor_comp |-> row.humor_comp,
     risk_comp |-> row.risk_comp, comp_index |-> row.comp_index,
     filter_gender |-> row.filter_gender, filter_age |-> row.filter_age,
     filter_city |-> row.filter_city, vedic_lite_score |-> row.vedic_lite_score,
     vedic_confidence |-> row.vedic_confidence,
     novelty |-> cfg.novelty_value, prior |-> cfg.prior_value,
     final_score |-> final_score(cfg, row)]

AdditiveRanker_score(cfg, rows) == [i \in DOMAIN rows |-> Scored(cfg, rows[i])]

\* ------------------------------------------------------------------------
\* pipeline.py: RecommenderPipeline
\* ------------------------------------------------------------------------
\* DataFrame.head(n): the first n rows, or for a negative n all rows but the
\* last -n
PyHead(s, n) == IF n >= 0 THEN SubSeq(s, 1, Min2(n, Len(s))) ELSE SubSeq(s, 1, Len(s) + n)

\* sort_values(["user_id", "final_score"], ascending=[True, False]): the
\* lexsort of several keys is stable whatever the build
SortByUserThenScore(rows) ==
    LET Before(i, j) ==
            \/ rows[i].user_id < rows[j].user_id
            \/ /\ rows[i].user_id = rows[j].user_id
               /\ \/ rows[i].final_score > rows[j].final_score
                  \/ rows[i].final_score = rows[j].final_score /\ i < j
    IN [r \in 1..Len(rows) |->
          rows[CHOOSE i \in 1..Len(rows) :
                   Cardinality({j \in 1..Len(rows) : Before(j, i)}) = r - 1]]

\* groupby("user_id").head(topn): the first topn rows of each user, in order
Pick(rows, kept) == [i \in DOMAIN kept |-> rows[kept[i]]]

GroupHead(rows, topn) ==
    Pick(rows, SelectSeq([i \in 1..Len(rows) |-> i],
                         LAMBDA i :
                            IF topn >= 0
                            THEN Cardinality({j \in 1..i :
                                     rows[j].user_id = rows[i].user_id}) <= topn
                            ELSE Cardinality({j \in (i + 1)..Len(rows) :
                                     rows[j].user_id = rows[i].user_id}) >= -topn))

\* sort_values("final_score", ascending=False): one key, the default kind
SortByScoreDesc(rows, ties) ==
    Pick(rows, NargsortDesc([i \in 1..Len(rows) |-> rows[i].final_score], ties))

NoError == "none"

\* lines 24-34 of recommend_all and 40-54 of recommend_for_user: recall,
\* features, scores and the sort, before head(topn)
\* [error, rows]: which error was raised, if any, and the sorted rows
RankedAllOf(cfg, built) ==
    IF built.raised THEN [error |-> "build_features", rows |-> <<>>]
    ELSE IF built.rows = <<>>
    THEN \* the empty frame has no column "user_id" to sort by
         [error |-> "KeyError", rows |-> <<>>]
    ELSE [error |-> NoError,
          rows |-> SortByUserThenScore(AdditiveRanker_score(cfg, built.rows))]

ranked_all(d, cfg, sim, ties) ==
    RankedAllOf(cfg, build_features(d, topk_for_all(d, sim, ties, cfg.recall_k),
                                    cfg.comp_mix, cfg.filters))

RankedForUserOf(cfg, ties, user_id, built) ==
    IF built.raised THEN [error |-> "build_features", rows |-> <<>>]
    ELSE IF built.rows = <<>> THEN [error |-> NoError, rows |-> <<>>]
    ELSE [error |-> NoError,
          rows |-> SortByScoreDesc(SelectSeq(AdditiveRanker_score(cfg, built.rows),
                                             LAMBDA r : r.user_id = user_id), ties)]

\* recommend_for_user with the recall of the whole population in place of
\* the top recall_k
ranked_for_user_unbounded(d, cfg, sim, ties, user_id) ==
    RankedForUserOf(cfg, ties, user_id,
        build_features(d, <<[uid |-> user_id,
                             cands |-> topk_for_user(d, sim, ties, user_id, Len(d))]>>,
                       cfg.comp_mix, cfg.filters))

ranked_for_user(d, cfg, sim, ties, user_id) ==
    RankedForUserOf(cfg, ties, user_id,
        build_features(d, <<[uid |-> user_id,
                             cands |-> topk_for_user(d, sim, ties, user_id, cfg.recall_k)]>>,
                       cfg.comp_mix, cfg.filters))

\* groupby head(topn), then the three columns returned
ThreeColumns(top) ==
    [i \in DOMAIN top |->
        [user_id |-> top[i].user_id, match_id |-> top[i].match_id,
         compatibility_score |-> top[i].final_score]]

recommend_all(ranked, topn) ==
    [error |-> ranked.error, rows |-> ThreeColumns(GroupHead(ranked.rows, topn))]

recommend_for_user(ranked, topn) ==
    [error |-> ranked.error, rows |-> PyHead(ranked.rows, topn)]

\* ------------------------------------------------------------------------
\* survey_matchmaker/recommender.py.  A table is a sequence of rows
\* [user_id, v]; v stands for the columns t0..t9 or e0..e9 and has two
\* components here.  Cosines are in 1/CosDen and match scores in 1/MatchDen;
\* the vectors of the model have whole-number norms, so both are exact.
\* ------------------------------------------------------------------------
CosDen == 25

MatchDen == 10 * CosDen

Dot(a, b) == a[1] * b[1] + a[2] * b[2]

\* numpy.linalg.norm
Norm(a) == CHOOSE r \in 0..Dot(a, a) : r * r = Dot(a, a)

\* 0.0 for a zero vector (the manual branch; sklearn's normalisation gives
\* the same), dot / (|a| |b|) otherwise
_cosine(a, b) ==
    IF Norm(a) * Norm(b) = 0 THEN 0
    ELSE (Dot(a, b) * CosDen) \div (Norm(a) * Norm(b))

\* the blend without max(0.0, min(1.0, .))
compute_match_score_unclamped(TA, EA, TB, EB) == 6 * _cosine(TA, TB) + 4 * _cosine(EA, EB)

compute_match_score(TA, EA, TB, EB) ==
    Max2(0, Min2(MatchDen, 6 * _cosine(TA, TB) + 4 * _cosine(EA, EB)))

\* _row_vectors: ValueError when either table has no row of the user, the
\* first row of the user in each table otherwise
HasRow(table, user_id) == \E i \in DOMAIN table : table[i].user_id = user_id

_row_vectorsRaises(s, user_id) == ~HasRow(s.traits, user_id) \/ ~HasRow(s.engagement, user_id)

FirstRow(table, user_id) ==
    table[CHOOSE i \in DOMAIN table :
              /\ table[i].user_id = user_id
              /\ \A j \in 1..(i - 1) : table[j].user_id # user_id]

\* the loop of find_best_matches over traits.user_id.tolist()
OtherRows(s, user_id) == SelectSeq(s.traits, LAMBDA r : r.user_id # user_id)

find_best_matchesRaises(s, user_id) ==
    \/ _row_vectorsRaises(s, user_id)
    \/ \E i \in DOMAIN s.traits :
          s.traits[i].user_id # user_id /\ _row_vectorsRaises(s, s.traits[i].user_id)

MatchPair(s, user_id, uid) ==
    <<uid, compute_match_score(FirstRow(s.traits, user_id).v,
                               FirstRow(s.engagement, user_id).v,
                               FirstRow(s.traits, uid).v,
                               FirstRow(s.engagement, uid).v)>>

MatchPairs(s, user_id, others) ==
    [i \in DOMAIN others |-> MatchPair(s, user_id, others[i].user_id)]

\* list.sort(key=score, reverse=True): stable, equal scores keep their order
PySortDesc(pairs) ==
    [r \in DOMAIN pairs |->
        pairs[CHOOSE i \in DOMAIN pairs :
                 Cardinality({j \in DOMAIN pairs :
                                \/ pairs[j][2] > pairs[i][2]
                                \/ pairs[j][2] = pairs[i][2] /\ j < i}) = r - 1]]

\* pairs[:top_k]: a negative top_k counts from the end
PySlice(s, top_k) ==
    IF top_k >= 0 THEN SubSeq(s, 1, Min2(top_k, Len(s)))
    ELSE SubSeq(s, 1, Max2(Len(s) + top_k, 0))

find_best_matches(user_id, s, top_k) ==
    IF find_best_matchesRaises(s, user_id) THEN [error |-> "ValueError", pairs |-> <<>>]
    ELSE [error |-> NoError,
          pairs |-> PySlice(PySortDesc(MatchPairs(s, user_id, OtherRows(s, user_id))), top_k)]

\* ------------------------------------------------------------------------
\* te_features: astro_offline.py, tables.py, te_mapper.py, __init__.py.
\* An angle is a whole number of 1/AngleUnit degree.  What the model does
\* not compute is an input of the call: the longitudes _calc_longitudes
\* returns (each the result of "% 360.0"), name_seed % 7, the weekday taken
\* from the Julian day, the sine and cosine of the moon's longitude, and
\* whether a difference of two equal grid angles is a float just below 0,
\* for which "% 360.0" returns 360.0 itself.
\* ------------------------------------------------------------------------
AngleUnit == 15

FullTurn == 360 * AngleUnit

\* x % m of two floats, m > 0
PyFloatMod(x, m, tiny_negative) == IF x = 0 /\ tiny_negative THEN m ELSE x % m

\* 1 + int(angle // sector) on the angle as it is handed in
_idx_from_angle_unwrapped(angle_deg, sector_deg) == 1 + (angle_deg \div sector_deg)

\* 1 + int((angle % 360.0) // sector)
_idx_from_angle(angle_deg, sector_deg) == 1 + ((angle_deg % FullTurn) \div sector_deg)

\* tables.py
SIGN_LORDS ==
    <<"Mars", "Venus", "Mercury", "Moon", "Sun", "Mercury",
      "Venus", "Mars", "Jupiter", "Saturn", "Saturn", "Jupiter">>

ELEMENTS ==
    <<"Fire", "Earth", "Air", "Water", "Fire", "Earth",
      "Air", "Water", "Fire", "Earth", "Air", "Water">>

_nadi_for(n) == <<"Adi", "Madhya", "Antya">>[((n - 1) % 3) + 1]

NAKSHATRA_GANA ==
    <<"Deva", "Manushya", "Rakshasa", "Manushya", "Deva", "Rakshasa", "Deva", "Deva",
      "Rakshasa", "Rakshasa", "Manushya", "Manushya", "Deva", "Rakshasa", "Deva",
      "Rakshasa", "Deva", "Rakshasa", "Rakshasa", "Manushya", "Manushya", "Deva",
      "Rakshasa", "Rakshasa", "Manushya", "Manushya", "Deva">>

NAKSHATRA_YONI ==
    <<"Horse", "Elephant", "Sheep", "Serpent", "Serpent", "Dog", "Cat", "Sheep", "Cat",
      "Rat", "Rat", "Cow", "Buffalo", "Tiger", "Buffalo", "Tiger", "Deer", "Deer",
      "Dog", "Monkey", "Mongoose", "Monkey", "Lion", "Horse", "Lion", "Cow", "Elephant">>

\* compute_astro.  The sidereal and the elongation angles, then the indices.
MoonSidereal(pn) == PyFloatMod(pn.moon - pn.ayan, FullTurn, pn.tiny_negative)

Elongation(pn) == PyFloatMod(pn.moon - pn.sun, FullTurn, pn.tiny_negative)

NakWidth == FullTurn \div 27

EdgeDist(moon_sid) == Min2(moon_sid % NakWidth, NakWidth - (moon_sid % NakWidth))

\* confidence in tenths: 0.9, less 0.3, 0.2, 0.2 and 0.1, held to [0, 1]
ConfidenceTenths(pn, moon_sid) ==
    Max2(0, Min2(10,
        9 - (IF pn.place # "gazetteer" THEN 3 ELSE 0)
          - (IF pn.minute_missing THEN 2 ELSE 0)
          - (IF pn.used_fallback THEN 2 ELSE 0)
          - (IF 5 * EdgeDist(moon_sid) < AngleUnit THEN 1 ELSE 0)))

AstroOf(pn, moon_sid, moon_sign, nakshatra_id, tithi_id) ==
    [moon_lon_sidereal |-> moon_sid,
     moon_sign |-> moon_sign,
     nakshatra_id |-> nakshatra_id,
     tithi_id |-> tithi_id,
     paksha |-> IF 1 <= tithi_id /\ tithi_id <= 15 THEN "Shukla" ELSE "Krishna",
     gana |-> NAKSHATRA_GANA[nakshatra_id],
     yoni |-> NAKSHATRA_YONI[nakshatra_id],
     nadi |-> _nadi_for(nakshatra_id),
     sign_lord |-> IF moon_sign \in DOMAIN SIGN_LORDS THEN SIGN_LORDS[moon_sign] ELSE "None",
     confidence |-> ConfidenceTenths(pn, moon_sid)]

\* NAKSHATRA_META.get(nakshatra_id) is None: ValueError
compute_astroRaises(pn) ==
    \/ ~pn.date_ok
    \/ _idx_from_angle(MoonSidereal(pn), NakWidth) \notin DOMAIN NAKSHATRA_GANA

compute_astro(pn) ==
    AstroOf(pn, MoonSidereal(pn),
            _idx_from_angle(MoonSidereal(pn), 30 * AngleUnit),
            _idx_from_angle(MoonSidereal(pn), NakWidth),
            _idx_from_angle(Elongation(pn), 12 * AngleUnit))

\* te_mapper.py.  T and E values are in 1/TEDen; P(h) is h hundredths.
TEDen == 29 * 100000

P(h) == h * (TEDen \div 100)

_clamp01(x) == Max2(0, Min2(TEDen, x))

\* (seed % 7) / 1000.0
_epsilon(pn) == IF pn.disable_hash_jitter THEN 0 ELSE pn.seed * (TEDen \div 1000)

Element(astro) == IF astro.moon_sign \in DOMAIN ELEMENTS THEN ELEMENTS[astro.moon_sign] ELSE "None"

When(cond, h) == IF cond THEN P(h) ELSE 0

TVector(pn, a, el, eps) ==
    <<_clamp01(P(45) + When(el = "Air", 18) + When(a.sign_lord \in {"Jupiter", "Venus"}, 12)
               + When(a.gana \in {"Deva", "Manushya"}, 8) + eps),
      _clamp01(P(50) + When(a.paksha = "Shukla", 12) + When(a.gana = "Deva", 12)
               - When(a.gana = "Rakshasa", 12) + eps),
      _clamp01(P(45) + When(el = "Fire", 18) + When(a.sign_lord \in {"Mars", "Sun"}, 15)
               + When((2 <= a.tithi_id /\ a.tithi_id <= 6)
                      \/ (18 <= a.tithi_id /\ a.tithi_id <= 22), 5) + eps),
      _clamp01(P(45) + When(el = "Earth", 18) + When(a.nadi = "Adi", 10)
               - When(a.nadi = "Antya", 10) + eps),
      _clamp01(P(45) + When(el = "Water", 18)
               + When(a.paksha = "Krishna" /\ a.tithi_id >= 20, 10) + eps),
      _clamp01(P(45) + When(el = "Air", 12)
               + When(a.yoni \in {"Tiger", "Deer", "Monkey"}, 12) + eps),
      _clamp01(P(45) + When(a.sign_lord \in {"Mercury", "Jupiter"}, 15)
               + P(2) * (pn.sin_m + 1) + P(2) * (pn.cos_m + 1) + eps),
      _clamp01(P(45) + When(a.sign_lord = "Venus", 15)
               + When(a.yoni \in {"Cow", "Elephant", "Horse"}, 10)
               + When(pn.weekday = 4, 5) + eps),
      Min2(P(90), _clamp01(P(40) + When(a.gana = "Rakshasa", 20)
                           + When(a.yoni = "Tiger", 12) + eps)),
      _clamp01(P(50) + When(el = "Air", 15) - When(a.sign_lord = "Saturn", 12) + eps)>>

\* 0.6 * base, base being span or 1 - span, span = (tithi - 1) / 29
SpanTerm(a) ==
    IF a.paksha = "Krishna" THEN 60000 * (a.tithi_id - 1) ELSE 60000 * (30 - a.tithi_id)

EVector(a, el, eps, T) ==
    <<_clamp01(P(45) + When(a.sign_lord \in {"Mars", "Sun"}, 15) + When(el = "Fire", 12) + eps),
      _clamp01(P(20) + SpanTerm(a) + eps),
      _clamp01(P(45) + When(el \in {"Air", "Fire"}, 15)
               + When(a.gana \in {"Manushya", "Rakshasa"}, 12) + eps),
      _clamp01(P(45) + When(el = "Earth", 15) + When(a.nadi = "Adi", 10) + eps),
      _clamp01(P(45) + When(el = "Water", 15)
               + When(a.gana \in {"Deva", "Manushya"}, 10) + eps),
      _clamp01(P(50) - When(a.sign_lord = "Saturn", 12)
               + When(a.sign_lord \in {"Venus", "Jupiter"}, 12) + eps),
      _clamp01(P(45) + When(a.sign_lord = "Venus", 15)
               + When(a.yoni \in {"Tiger", "Deer", "Monkey"}, 10) + eps),
      _clamp01(((T[2] * 35 + T[5] * 35 + T[7] * 30) \div 100) + eps),
      _clamp01(P(45) + When(a.gana = "Rakshasa", 15) + When(a.sign_lord = "Mars", 12)
               - When(a.sign_lord = "Venus" /\ T[8] > P(70), 8) + eps),
      _clamp01(P(45) + When(el \in {"Air", "Fire"}, 12) + When(a.sign_lord = "Saturn", 10)
               - When(el = "Water" /\ T[5] > P(65), 8) + eps)>>

WithE(astro, el, eps, T) == [astro |-> astro, T |-> T, E |-> EVector(astro, el, eps, T)]

compute_vectors(pn, astro) ==
    WithE(astro, Element(astro), _epsilon(pn), TVector(pn, astro, Element(astro), _epsilon(pn)))

\* compute_te: the checks of its arguments, resolve_place, compute_astro,
\* compute_vectors
compute_teRaises(pn) == ~pn.name_ok \/ pn.place = "unknown" \/ compute_astroRaises(pn)

compute_te(pn) ==
    IF compute_teRaises(pn) THEN [error |-> "ValueError", rows |-> <<>>]
    ELSE [error |-> NoError, rows |-> <<compute_vectors(pn, compute_astro(pn))>>]

\* ------------------------------------------------------------------------
\* Datasets and configs the pipeline is constructed from
\* ------------------------------------------------------------------------
\* user ids are not row positions: row i has id IdOf(i), or the rows come
\* in descending order of id
IdOf(i) == 10 + i

\* an id no row of the dataset has
UnknownId == IdOf(MaxUsers + 1)

BaseUser(id) ==
    [user_id |-> id,
     age |-> IntCell(25),
     gender |-> StrCell(<<"F">>),
     city |-> StrCell(<<"D","e","l","h","i">>),
     tags |-> StrCell(<<"a","r","t",","," ","t","e","c","h">>),
     social_energy |-> StrCell(<<"i","n","t","r","o","v","e","r","t">>),
     humor_style |-> StrCell(<<"D","a","r","k">>),
     risk_taking |-> StrCell(<<"l","o","w">>),
     gender_interest |-> StrCell(<<"M">>),
     min_age_pref |-> IntCell(26),
     max_age_pref |-> NaN,
     city_interest |-> StrCell(S_any),
     birth_date |-> StrCell(<<"2","0","0","0","-","0","1","-","0","1">>),
     birth_city |-> StrCell(<<"M","u","m","b","a","i">>),
     birth_time |-> StrCell(<<"1","0",":","3","0">>)]

\* a second complete row: the opposite of BaseUser in gender, energy, humor
\* and risk, born half a year later, with the birth time cell left empty as
\* scripts/generate_profiles.py leaves it for most rows
OtherUser(id) ==
    [BaseUser(id) EXCEPT
        !.age = IntCell(30),
        !.gender = StrCell(<<"M">>),
        !.social_energy = StrCell(<<"e","x","t","r","o","v","e","r","t">>),
        !.humor_style = StrCell(<<"W","h","o","l","e","s","o","m","e">>),
        !.risk_taking = StrCell(<<"h","i","g","h">>),
        !.gender_interest = StrCell(<<"F">>),
        !.min_age_pref = NaN,
        !.birth_date = StrCell(<<"2","0","0","0","-","0","7","-","0","1">>),
        !.birth_time = NaN]

\* a row whose social_energy cell is empty in the CSV: read_csv gives NaN
NoEnergyUser(id) == [BaseUser(id) EXCEPT !.social_energy = NaN]

\* a row with a birth date of ten characters that is no date, and an empty
\* birth_city cell
BadDateUser(id) ==
    [BaseUser(id) EXCEPT
        !.birth_date = StrCell(<<"2","0","0","0","-","1","3","-","0","1">>),
        !.birth_city = NaN]

Profiles == {"base", "other", "no_energy", "bad_date"}

UserOf(profile, id) ==
    CASE profile = "base" -> BaseUser(id)
      [] profile = "other" -> OtherUser(id)
      [] profile = "no_energy" -> NoEnergyUser(id)
      [] OTHER -> BadDateUser(id)

\* the config document after the defaults of ranker.py and pipeline.py;
\* weights, threshold, shrink and mix in hundredths
NoFilters == [gender |-> FALSE, age |-> FALSE, city |-> FALSE]

AllFilters == [gender |-> TRUE, age |-> TRUE, city |-> TRUE]

DefaultConfig ==
    [w_sim |-> 30, w_comp |-> 20, w_vedic |-> 50, min_conf |-> 30,
     low_conf_shrink |-> 50, age_penalty |-> 0, recall_k |-> MaxK,
     w_nov |-> 0, w_pri |-> 0, novelty_value |-> 5, prior_value |-> 0,
     comp_mix |-> [energy |-> 34, humor |-> 33, risk |-> 33],
     filters |-> NoFilters]

\* the rows of a dataset of n users, in ascending or descending order of id
IdOrders(n) == {[i \in 1..n |-> IdOf(i)], [i \in 1..n |-> IdOf(n + 1 - i)]}

\* cosine_similarity: a symmetric table; only its off-diagonal entries are read
SimVals == {-5, 5}

Pairs(n) == {p \in (1..n) \X (1..n) : p[1] < p[2]}

SimTables(n) ==
    {[p \in (1..n) \X (1..n) |->
        IF p[1] = p[2] THEN SimDen
        ELSE IF p[1] < p[2] THEN half[p] ELSE half[<<p[2], p[1]>>]] :
     half \in [Pairs(n) -> SimVals]}

FlatSim(n) == [p \in (1..n) \X (1..n) |-> IF p[1] = p[2] THEN SimDen ELSE 5]

NoCall == [op |-> "init", uid |-> 0, k |-> 0, error |-> NoError,
           cands |-> <<>>, all |-> <<>>, rows |-> <<>>]

\* the survey family: up to three users whose trait vectors are drawn from
\* Vectors; the engagement vector of user 2 points with or against the
\* others'; the engagement table may lack the last user
Vectors == {<<0, 0>>, <<1, 0>>, <<3, 4>>, <<-1, 0>>}

SurveyRow(id, v) == [user_id |-> id, v |-> v]

DefaultSurvey ==
    [traits |-> <<SurveyRow(IdOf(1), <<1, 0>>), SurveyRow(IdOf(2), <<3, 4>>)>>,
     engagement |-> <<SurveyRow(IdOf(1), <<1, 0>>), SurveyRow(IdOf(2), <<1, 0>>)>>]

EngagementOf(n, e2) ==
    [i \in 1..n |-> SurveyRow(IdOf(i), IF i = 2 THEN e2 ELSE <<1, 0>>)]

Surveys ==
    {[traits |-> [i \in 1..n |-> SurveyRow(IdOf(i), tv[i])],
      engagement |-> SubSeq(EngagementOf(n, e2), 1, n - missing)] :
     n \in 1..3, tv \in [1..3 -> Vectors], e2 \in {<<1, 0>>, <<-1, 0>>}, missing \in {0, 1}}

\* the person family: moon longitudes every 100 units and at both ends of
\* the turn, two sun longitudes, an ayanamsa of 24 degrees or of none,
\* and the other inputs in a few combinations
DefaultPerson ==
    [name_ok |-> TRUE, place |-> "gazetteer", date_ok |-> TRUE, minute_missing |-> FALSE,
     used_fallback |-> TRUE, seed |-> 3, disable_hash_jitter |-> FALSE,
     sun |-> 0, moon |-> 100, ayan |-> 24 * AngleUnit, tiny_negative |-> FALSE,
     weekday |-> 0, sin_m |-> 0, cos_m |-> 1]

MoonGrid == {100 * i : i \in 0..53} \cup {FullTurn - 1, FullTurn}

SunGrid == {0, 186 * AngleUnit}

RejectedPersons ==
    {[DefaultPerson EXCEPT !.name_ok = FALSE], [DefaultPerson EXCEPT !.place = "unknown"],
     [DefaultPerson EXCEPT !.date_ok = FALSE]}

AcceptedSettings ==
    {[DefaultPerson EXCEPT !.place = pl[1], !.minute_missing = pl[2],
                           !.used_fallback = pl[2], !.seed = sd,
                           !.tiny_negative = tn, !.weekday = wh[1],
                           !.sin_m = wh[2], !.cos_m = wh[3]] :
     pl \in {<<"gazetteer", FALSE>>, <<"latlon", TRUE>>}, sd \in {0, 6},
     tn \in BOOLEAN, wh \in {<<4, 1, 0>>, <<0, -1, 0>>}}

Persons ==
    RejectedPersons \cup
    {[st EXCEPT !.moon = mo, !.sun = su, !.ayan = ay] :
     st \in AcceptedSettings, mo \in MoonGrid, su \in SunGrid, ay \in {0, 24 * AngleUnit}}

\* the requests: a user id of the dataset or an unknown one, and the k of a
\* recall call or the topn of a recommendation
Requests(d) == [uid : Range(user_ids(d)) \cup {UnknownId}, k : 0..MaxK]

\* the CSV header and the config documents a process is started on
C_user_id == <<"u","s","e","r","_","i","d">>
C_t_0 == <<"t","_","0">>
C_e_0 == <<"e","_","0">>
C_tags == <<"t","a","g","s">>

\* entry "main" is main.py run_batch or run_single, one call and the end;
\* entry "server" is server.py or run_interactive, call after call
MainLaunch == [entry |-> "main", columns |-> {C_user_id, C_t_0, C_e_0, C_tags},
               config_doc |-> "ok"]

Unbuilt == [state |-> "unbuilt", served |-> 0]

\* the recall family: complete rows, any similarity table, either tie kind,
\* the default config with a recall_k of 1 or MaxK
InitRecall ==
    \E n \in 1..MaxUsers :
      \E ids \in IdOrders(n) :
        /\ df = [i \in 1..n |-> BaseUser(ids[i])]
        /\ sim_matrix \in SimTables(n)
        /\ np_ties \in TieKinds
        /\ \E rk \in {1, MaxK} : config = [DefaultConfig EXCEPT !.recall_k = rk]
        /\ feats = <<>>
        /\ req \in Requests(df)
        /\ out = NoCall
        /\ launch = MainLaunch
        /\ pipe = Unbuilt
        /\ person = DefaultPerson
        /\ survey = DefaultSurvey

\* the edge family of recall: one or two users, and requests whose k is
\* negative, zero or one, for a user of the dataset or an unknown one
EdgeRequests(d) == [uid : Range(user_ids(d)) \cup {UnknownId}, k : {-2, -1, 0, 1}]

InitEdge ==
    \E n \in 1..2 :
      \E ids \in IdOrders(n) :
        /\ df = [i \in 1..n |-> BaseUser(ids[i])]
        /\ sim_matrix \in SimTables(n)
        /\ np_ties \in TieKinds
        /\ config = [DefaultConfig EXCEPT !.recall_k = 1]
        /\ feats = <<>>
        /\ req \in EdgeRequests(df)
        /\ out = NoCall
        /\ launch = MainLaunch
        /\ pipe = Unbuilt
        /\ person = DefaultPerson
        /\ survey = DefaultSurvey

\* the funnel family: user 11 is interested in "M"; users 12 and 13 are of
\* either gender; any similarity table, a recall_k of 1 or 2, the gender
\* filter on or off, and a request of user 11 for 0 to MaxK rows
InitFunnel ==
    /\ \E g2, g3 \in {StrCell(<<"F">>), StrCell(<<"M">>)} :
          df = <<BaseUser(IdOf(1)), [BaseUser(IdOf(2)) EXCEPT !.gender = g2],
                 [BaseUser(IdOf(3)) EXCEPT !.gender = g3]>>
    /\ sim_matrix \in SimTables(3)
    /\ np_ties \in TieKinds
    /\ \E rk \in {1, 2}, g \in BOOLEAN :
          config = [DefaultConfig EXCEPT !.recall_k = rk, !.filters = [NoFilters EXCEPT !.gender = g]]
    /\ feats = <<>>
    /\ \E k \in 0..MaxK : req = [uid |-> IdOf(1), k |-> k]
    /\ out = NoCall
    /\ launch = MainLaunch
    /\ pipe = Unbuilt
    /\ person = DefaultPerson
    /\ survey = DefaultSurvey

\* the data-quality family: every row is one of the four profiles, all
\* similarities are equal, the filters are all off or all on, and the request
\* asks for MaxK rows
InitData ==
    \E n \in 1..MaxUsers :
      \E prof \in [1..n -> Profiles] :
        /\ df = [i \in 1..n |-> UserOf(prof[i], IdOf(i))]
        /\ sim_matrix = FlatSim(n)
        /\ np_ties \in TieKinds
        /\ \E fl \in {NoFilters, AllFilters} : config = [DefaultConfig EXCEPT !.filters = fl]
        /\ feats = <<>>
        /\ \E uid \in Range(user_ids(df)) \cup {UnknownId} : req = [uid |-> uid, k |-> MaxK]
        /\ out = NoCall
        /\ launch = MainLaunch
        /\ pipe = Unbuilt
        /\ person = DefaultPerson
        /\ survey = DefaultSurvey

\* the ranking family: a feature table of two rows that differ in the
\* calendar confidence only, the first at or above the threshold of the
\* config and the second below it
Threshold(cfg) == cfg.min_conf * (ConfDen \div 100)

RankConfigs ==
    {[DefaultConfig EXCEPT !.w_sim = ws, !.w_vedic = wv, !.low_conf_shrink = sh,
                           !.age_penalty = ap] :
       ws \in {30, 300}, wv \in {0, 50}, sh \in {50, 100}, ap \in {0, 1}}

RankRow(base_sim, comp, score, conf, gap) ==
    [user_id |-> IdOf(1), match_id |-> IdOf(2), base_sim |-> base_sim,
     tag_overlap |-> 2, age_gap |-> gap,
     energy_comp |-> IF comp = 0 THEN 0 ELSE 1, humor_comp |-> 0, risk_comp |-> 0,
     comp_index |-> comp,
     filter_gender |-> TRUE, filter_age |-> TRUE, filter_city |-> TRUE,
     vedic_lite_score |-> score, vedic_confidence |-> conf]

RankRows(cfg) ==
    {<<RankRow(bs, cp, sc, hi, gap), RankRow(bs, cp, sc, lo, gap)>> :
       bs \in SimVals \cup {0}, cp \in {0, 34}, sc \in {0, ScoreDen \div 10, ScoreDen},
       hi \in {Threshold(cfg), Threshold(cfg) + 1, ConfDen},
       lo \in {0, Threshold(cfg) - 1}, gap \in {0, 5}}

InitRank ==
    /\ df = [i \in 1..2 |-> BaseUser(IdOf(i))]
    /\ sim_matrix = FlatSim(2)
    /\ np_ties \in TieKinds
    /\ config \in RankConfigs
    /\ feats \in RankRows(config)
    /\ req = [uid |-> IdOf(1), k |-> 1]
    /\ out = NoCall
    /\ launch = MainLaunch
    /\ pipe = Unbuilt
    /\ person = DefaultPerson
    /\ survey = DefaultSurvey

\* the legacy family: a feature table of two rows of one pair that agree in
\* base_sim, comp_index, calendar score, calendar confidence and age_gap and
\* differ in tag_overlap and in which indicator makes up the comp_index, under
\* configs that differ in the legacy novelty and prior weights and values
LegacyConfigs ==
    {[DefaultConfig EXCEPT !.w_nov = wn, !.w_pri = wp, !.novelty_value = nv,
                           !.prior_value = 70, !.age_penalty = ap] :
       wn \in {0, 40}, wp \in {0, 25}, nv \in {5, 90}, ap \in {0, 1}}

LegacyRow(bs, score, conf, gap, tags, humor) ==
    [user_id |-> IdOf(1), match_id |-> IdOf(2), base_sim |-> bs,
     tag_overlap |-> tags, age_gap |-> gap,
     energy_comp |-> 0, humor_comp |-> humor, risk_comp |-> 1 - humor,
     comp_index |-> 33,
     filter_gender |-> TRUE, filter_age |-> TRUE, filter_city |-> TRUE,
     vedic_lite_score |-> score, vedic_confidence |-> conf]

LegacyRows ==
    {<<LegacyRow(bs, sc, cf, gap, 2, 1), LegacyRow(bs, sc, cf, gap, tg, hm)>> :
       bs \in SimVals, sc \in {0, ScoreDen \div 10}, cf \in {0, ConfDen}, gap \in {0, 5},
       tg \in {0, 2, 5}, hm \in {0, 1}}

InitLegacy ==
    /\ df = [i \in 1..2 |-> BaseUser(IdOf(i))]
    /\ sim_matrix = FlatSim(2)
    /\ np_ties = "stable"
    /\ config \in LegacyConfigs
    /\ feats \in LegacyRows
    /\ req = [uid |-> IdOf(1), k |-> 1]
    /\ out = NoCall
    /\ launch = MainLaunch
    /\ pipe = Unbuilt
    /\ person = DefaultPerson
    /\ survey = DefaultSurvey

\* the launch family: any header made of four column names, a config file
\* that is the default document, is no JSON, or has a weight that is no
\* number; either entry point; two complete rows
ColumnNames == {C_user_id, C_t_0, C_e_0, C_tags}

ConfigDocs == {"ok", "bad_json", "bad_weight"}

InitServe ==
    /\ df = [i \in 1..2 |-> BaseUser(IdOf(i))]
    /\ sim_matrix = FlatSim(2)
    /\ np_ties \in TieKinds
    /\ config = [DefaultConfig EXCEPT !.recall_k = 1]
    /\ feats = <<>>
    /\ \E uid \in {IdOf(1), UnknownId} : req = [uid |-> uid, k |-> 1]
    /\ out = NoCall
    /\ launch \in [entry : {"main", "server"}, columns : SUBSET ColumnNames,
                   config_doc : ConfigDocs]
    /\ pipe = Unbuilt
    /\ person = DefaultPerson
    /\ survey = DefaultSurvey

\* the filter family: a user and a candidate that are BaseUser but for the
\* cells the gender filter, the age filter or the city filter reads
S_F == <<"F">>
S_M == <<"M">>

Interests ==
    {StrCell(S_F), StrCell(S_M), StrCell(<<"f",","," ","m">>), StrCell(<<"A","n","y">>),
     StrCell(<<"N","B",",","a","n","y">>), EmptyStr, NaN}

Genders == {StrCell(S_F), StrCell(S_M), StrCell(<<"f">>), StrCell(<<"N","B">>)}

MinBounds == {NaN, EmptyStr, IntCell(26), StrCell(<<"a","b","c">>)}

MaxBounds == {NaN, IntCell(30), StrCell(<<"3","0">>)}

Ages == {IntCell(25), IntCell(26), IntCell(30), IntCell(31)}

S_Delhi == <<"D","e","l","h","i">>

S_mumbai_padded == <<" ","m","u","m","b","a","i"," ">>

S_MUMBAI == <<"M","U","M","B","A","I">>

\* city_interest cells: a city, "Any", an empty string, an empty CSV cell,
\* and a dataset without the column
CityPrefs ==
    {StrCell(S_any), StrCell(<<"A","n","y">>), StrCell(<<"d","e","l","h","i">>),
     StrCell(S_mumbai_padded), EmptyStr, NaN, Absent}

Cities == {StrCell(S_Delhi), StrCell(S_MUMBAI)}

FilterCases ==
    [gi : Interests, g : Genders, mn : {NaN}, mx : {NaN}, age : {IntCell(25)},
     ci : {StrCell(S_any)}, city : {StrCell(S_Delhi)}]
    \cup [gi : {NaN}, g : {StrCell(S_F)}, mn : MinBounds, mx : MaxBounds, age : Ages,
          ci : {StrCell(S_any)}, city : {StrCell(S_Delhi)}]
    \cup [gi : {NaN}, g : {StrCell(S_F)}, mn : {NaN}, mx : {NaN}, age : {IntCell(25)},
          ci : CityPrefs, city : Cities]

FilterSettings ==
    {[NoFilters EXCEPT !.gender = TRUE], [NoFilters EXCEPT !.age = TRUE],
     [NoFilters EXCEPT !.city = TRUE], AllFilters}

InitFilter ==
    /\ \E c \in FilterCases :
          df = <<[BaseUser(IdOf(1)) EXCEPT !.gender_interest = c.gi,
                                           !.min_age_pref = c.mn, !.max_age_pref = c.mx,
                                           !.city_interest = c.ci],
                 [BaseUser(IdOf(2)) EXCEPT !.gender = c.g, !.age = c.age,
                                           !.city = c.city]>>
    /\ sim_matrix = FlatSim(2)
    /\ np_ties \in TieKinds
    /\ \E fl \in FilterSettings : config = [DefaultConfig EXCEPT !.filters = fl]
    /\ feats = <<>>
    /\ req = [uid |-> IdOf(1), k |-> MaxK]
    /\ out = NoCall
    /\ launch = MainLaunch
    /\ pipe = Unbuilt
    /\ person = DefaultPerson
    /\ survey = DefaultSurvey

InitSurvey ==
    /\ df = [i \in 1..2 |-> BaseUser(IdOf(i))]
    /\ sim_matrix = FlatSim(2)
    /\ np_ties = "stable"
    /\ config = DefaultConfig
    /\ feats = <<>>
    /\ survey \in Surveys
    /\ req \in [uid : {IdOf(1), UnknownId}, k : (-1)..MaxK]
    /\ out = NoCall
    /\ launch = MainLaunch
    /\ pipe = Unbuilt
    /\ person = DefaultPerson

InitPerson ==
    /\ df = [i \in 1..2 |-> BaseUser(IdOf(i))]
    /\ sim_matrix = FlatSim(2)
    /\ np_ties = "stable"
    /\ config = DefaultConfig
    /\ feats = <<>>
    /\ survey = DefaultSurvey
    /\ person \in Persons
    /\ req = [uid |-> IdOf(1), k |-> 1]
    /\ out = NoCall
    /\ launch = MainLaunch
    /\ pipe = Unbuilt

\* the date family: two rows that are BaseUser but for the birth date,
\* written as base.strftime("%Y-%m-%d") writes it
Pad2(n) == IF n < 10 THEN <<"0">> \o PyNatStr(n) ELSE PyNatStr(n)

DateCell(y, m, d) == StrCell(PyNatStr(y) \o <<"-">> \o Pad2(m) \o <<"-">> \o Pad2(d))

UserDates == {DateCell(2000, 1, 1), DateCell(2001, 7, 2), DateCell(2000, 12, 31)}

CandDates == {DateCell(y, m, d) : y \in {2000, 2001}, m \in 1..12, d \in {1, 2, 15, 28}}

InitDates ==
    /\ \E a \in UserDates, b \in CandDates :
          df = <<[BaseUser(IdOf(1)) EXCEPT !.birth_date = a],
                 [BaseUser(IdOf(2)) EXCEPT !.birth_date = b]>>
    /\ sim_matrix = FlatSim(2)
    /\ np_ties \in TieKinds
    /\ config = DefaultConfig
    /\ feats = <<>>
    /\ req = [uid |-> IdOf(1), k |-> MaxK]
    /\ out = NoCall
    /\ launch = MainLaunch
    /\ pipe = Unbuilt
    /\ person = DefaultPerson
    /\ survey = DefaultSurvey

\* the three-user family: user 1 is BaseUser (introvert), user 2 has the
\* same tags and is an extrovert, user 3 is any of a few rows; the config is
\* the default one with the filters off and recall_k = 2, the query is for
\* user 1 with topn = 1
S_extrovert == <<"e","x","t","r","o","v","e","r","t">>

S_Wholesome == <<"W","h","o","l","e","s","o","m","e">>

S_high == <<"h","i","g","h">>

S_music == <<"m","u","s","i","c">>

SecondUsers ==
    {[BaseUser(IdOf(2)) EXCEPT !.social_energy = StrCell(S_extrovert),
                               !.humor_style = StrCell(h), !.risk_taking = StrCell(r)] :
     h \in {BaseUser(0).humor_style.s, S_Wholesome},
     r \in {BaseUser(0).risk_taking.s, S_high}}

ThirdUsers ==
    {[BaseUser(IdOf(3)) EXCEPT !.social_energy = StrCell(e), !.tags = StrCell(g)] :
     e \in {BaseUser(0).social_energy.s, S_extrovert},
     g \in {BaseUser(0).tags.s, S_music}}

InitScenario ==
    /\ \E second \in SecondUsers, third \in ThirdUsers :
          df = <<BaseUser(IdOf(1)), second, third>>
    /\ sim_matrix \in SimTables(3)
    /\ np_ties \in TieKinds
    /\ config = [DefaultConfig EXCEPT !.recall_k = 2]
    /\ feats = <<>>
    /\ req = [uid |-> IdOf(1), k |-> 1]
    /\ out = NoCall
    /\ launch = MainLaunch
    /\ pipe = Unbuilt
    /\ person = DefaultPerson
    /\ survey = DefaultSurvey

\* the calendar family: two users that are BaseUser but for the birth date
\* (dates at both ends of the equinox band, a date of ten characters that is
\* no date, a short one, an empty text, an empty cell), the birth city of the
\* second (the northernmost and a southern one) and the birth times (a time
\* or an empty text); the default config
S_Chennai == <<"C","h","e","n","n","a","i">>

S_not_a_date == <<"2","0","0","0","-","1","3","-","0","1">>

S_short_date == <<"2","0","0","0","-","1","-","1">>

FirstDates == {DateCell(2000, 1, 1), DateCell(2001, 7, 1), StrCell(S_not_a_date), NaN}

SecondDates == {DateCell(2000, 1, 1), DateCell(2001, 7, 1), DateCell(2000, 4, 1),
                StrCell(S_short_date), EmptyStr}

BirthTimes == {BaseUser(0).birth_time, EmptyStr}

InitCalendar ==
    /\ \E d1 \in FirstDates, d2 \in SecondDates, t1, t2 \in BirthTimes,
          c2 \in {StrCell(S_Delhi), StrCell(S_Chennai)} :
          df = <<[BaseUser(IdOf(1)) EXCEPT !.birth_date = d1, !.birth_time = t1],
                 [BaseUser(IdOf(2)) EXCEPT !.birth_date = d2, !.birth_time = t2,
                                           !.birth_city = c2]>>
    /\ sim_matrix = FlatSim(2)
    /\ np_ties \in TieKinds
    /\ config = DefaultConfig
    /\ feats = <<>>
    /\ \E uid \in {IdOf(1), IdOf(2)} : req = [uid |-> uid, k |-> MaxK]
    /\ out = NoCall
    /\ launch = MainLaunch
    /\ pipe = Unbuilt
    /\ person = DefaultPerson
    /\ survey = DefaultSurvey

\* the complementarity family: two users whose social_energy, risk_taking and
\* humor_style cells vary over texts of every bucket (with padding, capitals,
\* an empty cell text and a missing column), and a complementarity_mix that
\* is complete or leaves keys to their defaults
S_introvert == <<"i","n","t","r","o","v","e","r","t">>

S_Low_padded == <<" ","L","o","w">>

S_ambivert == <<"a","m","b","i","v","e","r","t">>

S_low == <<"l","o","w">>

S_medium == <<"m","e","d","i","u","m">>

S_Bold == <<"B","o","l","d">>

S_Dark == <<"D","a","r","k">>

S_silly == <<"s","i","l","l","y">>

S_dark_but_light == <<"d","a","r","k"," ","b","u","t"," ","l","i","g","h","t">>

EnergyCells == {StrCell(S_introvert), StrCell(S_Low_padded), StrCell(S_ambivert),
                StrCell(S_extrovert), Absent}

RiskCells == {StrCell(S_low), StrCell(S_medium), StrCell(S_Bold), EmptyStr}

HumorCells == {StrCell(S_Dark), StrCell(S_Wholesome), StrCell(S_silly),
               StrCell(S_dark_but_light)}

CompCases ==
    [e1 : EnergyCells, e2 : EnergyCells, r1 : {StrCell(S_low)},
     r2 : {StrCell(S_Bold), StrCell(S_medium)}, h1 : {StrCell(S_Dark)},
     h2 : {StrCell(S_Wholesome), StrCell(S_silly)}]
    \cup [e1 : {StrCell(S_introvert)}, e2 : {StrCell(S_extrovert)}, r1 : RiskCells,
          r2 : RiskCells, h1 : {StrCell(S_Dark)}, h2 : {StrCell(S_Wholesome)}]
    \cup [e1 : {StrCell(S_introvert)}, e2 : {StrCell(S_extrovert)}, r1 : {StrCell(S_low)},
          r2 : {StrCell(S_Bold)}, h1 : HumorCells, h2 : HumorCells]

CompMixes == {DefaultConfig.comp_mix, [energy |-> 50, humor |-> 30, risk |-> 20],
              [humor |-> 40], [energy |-> 60, risk |-> 10]}

InitComp ==
    /\ \E c \in CompCases :
          df = <<[BaseUser(IdOf(1)) EXCEPT !.social_energy = c.e1, !.risk_taking = c.r1,
                                           !.humor_style = c.h1],
                 [BaseUser(IdOf(2)) EXCEPT !.social_energy = c.e2, !.risk_taking = c.r2,
                                           !.humor_style = c.h2]>>
    /\ sim_matrix = FlatSim(2)
    /\ np_ties = "stable"
    /\ \E mix \in CompMixes : config = [DefaultConfig EXCEPT !.comp_mix = mix]
    /\ feats = <<>>
    /\ req = [uid |-> IdOf(1), k |-> MaxK]
    /\ out = NoCall
    /\ launch = MainLaunch
    /\ pipe = Unbuilt
    /\ person = DefaultPerson
    /\ survey = DefaultSurvey

\* ------------------------------------------------------------------------
\* Operations.  A process is started for one request (main.py: run_batch,
\* run_single): it constructs the pipeline, makes the call and ends.
\* ------------------------------------------------------------------------
\* RecommenderPipeline.__init__ in the order of its lines: json.load of
\* the config (13-15), read_csv (16), find_embedding_columns (18),
\* CandidateGenerator (19: recall.py 20-21 want the user_id column),
\* AdditiveRanker (20: float() of the weights).  NoError when it returns.
InitError(l) ==
    IF l.config_doc = "bad_json" THEN "JSONDecodeError"
    ELSE IF find_embedding_columns(l.columns) = {} THEN "ValueError: no embedding columns"
    ELSE IF C_user_id \notin l.columns THEN "ValueError: no user_id column"
    ELSE IF l.config_doc = "bad_weight" THEN "ValueError: float"
    ELSE NoError

Initialize ==
    /\ pipe.state = "unbuilt"
    /\ pipe' = [pipe EXCEPT !.state = IF InitError(launch) = NoError THEN "ready" ELSE "failed"]
    /\ out' = IF InitError(launch) = NoError THEN out
              ELSE [NoCall EXCEPT !.op = "__init__", !.error = InitError(launch)]
    /\ UNCHANGED <<df, config, sim_matrix, np_ties, feats, req, launch, survey, person>>

\* a call can be made on a constructed pipeline: one call from main.py,
\* up to MaxCalls from a serving process
CallLimit == IF launch.entry = "server" THEN MaxCalls ELSE 1

Pending == pipe.state = "ready" /\ pipe.served < CallLimit

Served == pipe' = [pipe EXCEPT !.served = pipe.served + 1]

Returned(op, uid, k, res) ==
    [op |-> op, uid |-> uid, k |-> k, error |-> res.error,
     cands |-> <<>>, all |-> <<>>, rows |-> res.rows]

TopkForUser ==
    /\ Pending
    /\ out' = [NoCall EXCEPT !.op = "topk_for_user", !.uid = req.uid, !.k = req.k,
                             !.cands = topk_for_user(df, sim_matrix, np_ties, req.uid, req.k)]
    /\ sim_matrix' = SimAfterTopk(df, sim_matrix, req.uid)
    /\ Served
    /\ UNCHANGED <<df, config, np_ties, feats, req, launch, survey, person>>

TopkForAll ==
    /\ Pending
    /\ out' = [NoCall EXCEPT !.op = "topk_for_all", !.k = req.k,
                             !.all = topk_for_all(df, sim_matrix, np_ties, req.k)]
    /\ sim_matrix' = SimAfterTopkAll(df, sim_matrix, 1)
    /\ Served
    /\ UNCHANGED <<df, config, np_ties, feats, req, launch, survey, person>>

\* build_features on what the recall of the whole dataset returns (lines
\* 24-30 of recommend_all); out.all keeps the candidates it was given
BuiltFrom(cands, built) ==
    [op |-> "build_features", uid |-> 0, k |-> 0,
     error |-> IF built.raised THEN "build_features" ELSE NoError,
     cands |-> <<>>, all |-> cands, rows |-> built.rows]

BuildOn(cands) ==
    BuiltFrom(cands, build_features(df, cands, config.comp_mix, config.filters))

\* build_features called with a candidate mapping of the caller's own: the
\* empty one, one whose only key is no user of the dataset, and one that
\* mixes users of the dataset with ids that are not in it
GivenMappings ==
    {<<>>,
     <<[uid |-> UnknownId, cands |-> <<<<IdOf(1), 5>>>>]>>,
     <<[uid |-> IdOf(1), cands |-> <<<<UnknownId, 5>>, <<IdOf(2), 5>>>>],
       [uid |-> UnknownId, cands |-> <<<<IdOf(1), 5>>>>],
       [uid |-> IdOf(2), cands |-> <<<<IdOf(1), -5>>>>]>>}

BuildFeaturesGiven ==
    /\ Pending
    /\ \E cands \in GivenMappings :
          out' = [BuildOn(cands) EXCEPT !.op = "build_features_given"]
    /\ Served
    /\ UNCHANGED <<df, config, sim_matrix, np_ties, feats, req, launch, survey, person>>

BuildFeatures ==
    /\ Pending
    /\ out' = BuildOn(topk_for_all(df, sim_matrix, np_ties, config.recall_k))
    /\ sim_matrix' = SimAfterTopkAll(df, sim_matrix, 1)
    /\ Served
    /\ UNCHANGED <<df, config, np_ties, feats, req, launch, survey, person>>

RecommendAll ==
    /\ Pending
    /\ out' = Returned("recommend_all", 0, req.k,
                       recommend_all(ranked_all(df, config, sim_matrix, np_ties), req.k))
    /\ sim_matrix' = SimAfterTopkAll(df, sim_matrix, 1)
    /\ Served
    /\ UNCHANGED <<df, config, np_ties, feats, req, launch, survey, person>>

RecommendForUser ==
    /\ Pending
    /\ out' = Returned("recommend_for_user", req.uid, req.k,
                       recommend_for_user(
                           ranked_for_user(df, config, sim_matrix, np_ties, req.uid), req.k))
    /\ sim_matrix' = SimAfterTopk(df, sim_matrix, req.uid)
    /\ Served
    /\ UNCHANGED <<df, config, np_ties, feats, req, launch, survey, person>>

\* find_best_matches(user_id, traits, engagement, top_k) for the request
FoundMatches(res) ==
    [NoCall EXCEPT !.op = "find_best_matches", !.uid = req.uid, !.k = req.k,
                   !.error = res.error, !.cands = res.pairs]

FindBestMatches ==
    /\ Pending
    /\ out' = FoundMatches(find_best_matches(req.uid, survey, req.k))
    /\ Served
    /\ UNCHANGED <<df, config, sim_matrix, np_ties, feats, req, launch, survey, person>>

\* compute_te on the person at hand
ComputedTE(res) == [NoCall EXCEPT !.op = "compute_te", !.error = res.error, !.rows = res.rows]

ComputeTE ==
    /\ Pending
    /\ out' = ComputedTE(compute_te(person))
    /\ Served
    /\ UNCHANGED <<df, config, sim_matrix, np_ties, feats, req, launch, survey, person>>

\* AdditiveRanker.score on the feature table at hand
Score ==
    /\ Pending
    /\ out' = [NoCall EXCEPT !.op = "score", !.rows = AdditiveRanker_score(config, feats)]
    /\ Served
    /\ UNCHANGED <<df, config, sim_matrix, np_ties, feats, req, launch, survey, person>>

Next ==
    \/ Initialize
    \/ TopkForUser
    \/ TopkForAll
    \/ BuildFeatures
    \/ BuildFeaturesGiven
    \/ RecommendAll
    \/ RecommendForUser
    \/ Score
    \/ FindBestMatches
    \/ ComputeTE

Spec == InitRecall /\ [][Next]_vars

SpecData == InitData /\ [][Next]_vars

SpecRank == InitRank /\ [][Next]_vars

SpecServe == InitServe /\ [][Next]_vars

SpecFilter == InitFilter /\ [][Next]_vars

SpecDates == InitDates /\ [][Next]_vars

SpecScenario == InitScenario /\ [][Next]_vars

SpecSurvey == InitSurvey /\ [][Next]_vars

SpecPerson == InitPerson /\ [][Next]_vars

SpecComp == InitComp /\ [][Next]_vars

SpecEdge == InitEdge /\ [][Next]_vars

SpecFunnel == InitFunnel /\ [][Next]_vars

SpecLegacy == InitLegacy /\ [][Next]_vars

SpecCalendar == InitCalendar /\ [][Next]_vars

\* ------------------------------------------------------------------------
\* Properties
\* ------------------------------------------------------------------------
KnownIds == Range(user_ids(df))

RowOf(uid) == df[ById(df, uid)]

\* the (user, candidate) pairs of a recall result of the whole dataset
RecalledPairs(all) ==
    UNION {{<<all[e].uid, all[e].cands[i][1]>> : i \in DOMAIN all[e].cands} :
           e \in DOMAIN all}

RowPairs(rows) == {<<rows[i].user_id, rows[i].match_id>> : i \in DOMAIN rows}

\* C1: the list topk_for_user returns for a user never holds that user, so
\* no entry of topk_for_all and no row of recommend_for_user or
\* recommend_all pairs a user with itself.
C1_NoSelfCandidate ==
    /\ out.op = "topk_for_user" =>
          \A i \in DOMAIN out.cands : out.cands[i][1] # out.uid
    /\ out.op = "topk_for_all" =>
          \A e \in DOMAIN out.all :
             \A i \in DOMAIN out.all[e].cands : out.all[e].cands[i][1] # out.all[e].uid
    /\ out.op \in {"recommend_all", "recommend_for_user"} =>
          \A i \in DOMAIN out.rows : out.rows[i].match_id # out.rows[i].user_id

\* a known user of a dataset of two or more asked for at least as many
\* candidates as there are other users: all of them come back
C1_Witness ==
    /\ out.op = "topk_for_user"
    /\ Len(df) >= 2
    /\ out.uid \in KnownIds
    /\ out.k >= Len(df) - 1
    /\ Len(out.cands) = Len(df) - 1

\* C2: for a known user and k >= 1, topk_for_user returns at most
\* min(k, N-1) entries, the other users of highest similarity, in strictly
\* descending order of similarity with equal similarities in ascending order
\* of candidate id.
C2_TopkOrderedWithIdTieBreak ==
    (out.op = "topk_for_user" /\ out.uid \in KnownIds /\ out.k >= 1) =>
        /\ Len(out.cands) <= Min2(out.k, Len(df) - 1)
        /\ \A r \in DOMAIN df :
              (r # id_to_idx(df, out.uid)
               /\ \A i \in DOMAIN out.cands : out.cands[i][1] # df[r].user_id) =>
                 \A i \in DOMAIN out.cands :
                    out.cands[i][2] >= sim_matrix[<<id_to_idx(df, out.uid), r>>]
        /\ \A i, j \in DOMAIN out.cands :
              i < j => \/ out.cands[i][2] > out.cands[j][2]
                       \/ /\ out.cands[i][2] = out.cands[j][2]
                          /\ out.cands[i][1] < out.cands[j][1]

\* the filter flags of a pair of the dataset under the config
PairPasses(uid, cid) == FlagsPass(_hard_filter_flags(RowOf(uid), RowOf(cid), config.filters))

\* C3: a pair is in the output of recommend_for_user or recommend_all only
\* if every enabled hard filter passes for it, and with the three filters
\* off the pairs that get a feature row are exactly the recalled pairs.
C3_FiltersDecideWhatIsScored ==
    /\ out.op \in {"recommend_all", "recommend_for_user"} =>
          \A i \in DOMAIN out.rows : PairPasses(out.rows[i].user_id, out.rows[i].match_id)
    /\ (out.op = "build_features" /\ config.filters = NoFilters) =>
          /\ out.error = NoError
          /\ RowPairs(out.rows) = RecalledPairs(out.all)

\* C4: build_features does not raise on a row with an empty (NaN) or
\* malformed cell: the call completes, and with the filters off every
\* recalled pair still gets its feature row.
C4_BuildFeaturesCompletes ==
    out.op = "build_features" =>
        /\ out.error = NoError
        /\ config.filters = NoFilters => RowPairs(out.rows) = RecalledPairs(out.all)

\* a birth date that is missing, not of ten characters, or no date
UnusableDate(r) ==
    \/ NormStr(Get(r, "birth_date", EmptyStr)) = <<>>
    \/ Len(NormStr(Get(r, "birth_date", EmptyStr))) # 10
    \/ ~_parse_date(NormStr(Get(r, "birth_date", EmptyStr))).ok

UnusablePair(p) == UnusableDate(RowOf(p[1])) \/ UnusableDate(RowOf(p[2]))

\* C5: the calendar score and confidence of every feature row lie in
\* [0, 1]; when a birth date of the pair is missing, not of ten characters or
\* no date, both are 0 and build_features raises no error.
C5_CalendarSignalsDegrade ==
    out.op = "build_features" =>
        /\ (\E p \in RecalledPairs(out.all) : UnusablePair(p)) => out.error = NoError
        /\ \A i \in DOMAIN out.rows :
              /\ out.rows[i].vedic_lite_score \in 0..ScoreDen
              /\ out.rows[i].vedic_confidence \in 0..ConfDen
              /\ UnusablePair(<<out.rows[i].user_id, out.rows[i].match_id>>) =>
                    /\ out.rows[i].vedic_lite_score = 0
                    /\ out.rows[i].vedic_confidence = 0

\* the terms of the final score that do not depend on the calendar, and the
\* calendar weight as the claim words it, in the units of final_score
OtherTerms(cfg, row) ==
    cfg.w_sim * row.base_sim * 100 * (ScoreDen \div SimDen)
    + cfg.w_comp * row.comp_index * ScoreDen
    - cfg.age_penalty * row.age_gap * 100 * ScoreDen

ConfiguredOrShrunk(cfg, conf) ==
    IF conf >= Threshold(cfg) THEN cfg.w_vedic * 100 ELSE cfg.w_vedic * cfg.low_conf_shrink

\* C6: score gives every feature row final_score = w_sim*base_sim +
\* w_comp*comp_index + w_cal*cal_score - age_penalty*age_gap, w_cal being the
\* configured weight when the confidence is at least the threshold and the
\* weight times the shrink factor otherwise; nothing is clamped.
C6_FinalScoreFormula ==
    out.op = "score" =>
        /\ Len(out.rows) = Len(feats)
        /\ \A i \in DOMAIN feats :
              out.rows[i].final_score =
                 OtherTerms(config, feats[i])
                 + ConfiguredOrShrunk(config, feats[i].vedic_confidence)
                   * feats[i].vedic_lite_score

\* a row whose confidence equals the threshold, with a weight, a score and a
\* shrink factor that make the two branches differ, beside a negative score
C6_Witness ==
    /\ out.op = "score"
    /\ config.w_vedic > 0
    /\ config.low_conf_shrink < 100
    /\ \E i \in DOMAIN feats :
          /\ feats[i].vedic_confidence = Threshold(config)
          /\ feats[i].vedic_lite_score > 0
    /\ \E j \in DOMAIN out.rows : out.rows[j].final_score < 0

\* the calendar term of the final score of row i, and the table at hand
\* being two rows alike but for the confidence, at or above the threshold
\* in the first and below it in the second
CalTerm(i) == out.rows[i].final_score - OtherTerms(config, feats[i])

GatedPair ==
    /\ out.op = "score"
    /\ Len(feats) = 2
    /\ feats[1].vedic_confidence >= Threshold(config)
    /\ feats[2].vedic_confidence < Threshold(config)
    /\ feats[2] = [feats[1] EXCEPT !.vedic_confidence = feats[2].vedic_confidence]

\* C7 as stated: lowering the confidence below the threshold strictly
\* decreases the calendar term, or leaves it equal if the calendar weight is
\* 0, and the low term is the high term times the shrink factor.
C7_GatingStrictlyDecreases ==
    GatedPair =>
        /\ \/ CalTerm(2) < CalTerm(1)
           \/ config.w_vedic = 0 /\ CalTerm(2) = CalTerm(1)
        /\ CalTerm(2) * 100 = CalTerm(1) * config.low_conf_shrink

\* C7, amended: the low term is the high term times the shrink factor; it
\* is strictly smaller when weight and calendar score are positive and the
\* shrink factor is below 1, and equal when the weight is 0, the calendar
\* score is 0 or the shrink factor is 1.
C7_GatingShrinks ==
    GatedPair =>
        /\ CalTerm(2) * 100 = CalTerm(1) * config.low_conf_shrink
        /\ (config.w_vedic > 0 /\ feats[1].vedic_lite_score > 0
            /\ config.low_conf_shrink < 100) => CalTerm(2) < CalTerm(1)
        /\ (config.w_vedic = 0 \/ feats[1].vedic_lite_score = 0
            \/ config.low_conf_shrink = 100) => CalTerm(2) = CalTerm(1)

\* a gated pair whose calendar term is halved
C7_Witness ==
    /\ GatedPair
    /\ config.w_vedic > 0
    /\ config.low_conf_shrink = 50
    /\ feats[1].vedic_lite_score = ScoreDen
    /\ CalTerm(1) > 0
    /\ CalTerm(2) * 2 = CalTerm(1)

\* C8: recommend_all(topN) gives every user at most topN rows, in descending
\* order of final score with equal scores in ascending order of candidate id.
C8_RecommendAllOrderedWithIdTieBreak ==
    (out.op = "recommend_all" /\ out.error = NoError) =>
        /\ \A u \in KnownIds :
              Cardinality({i \in DOMAIN out.rows : out.rows[i].user_id = u}) <= out.k
        /\ \A i, j \in DOMAIN out.rows :
              (i < j /\ out.rows[i].user_id = out.rows[j].user_id) =>
                 \/ out.rows[i].compatibility_score > out.rows[j].compatibility_score
                 \/ /\ out.rows[i].compatibility_score = out.rows[j].compatibility_score
                    /\ out.rows[i].match_id < out.rows[j].match_id

\* every candidate recalled for the user fails an enabled filter
RecalledFor(uid) == topk_for_user(df, sim_matrix, np_ties, uid, config.recall_k)

FilteredOut(uid, cands) ==
    /\ cands # <<>>
    /\ \A i \in DOMAIN cands :
          /\ ~_hard_filter_flagsRaises(RowOf(uid), RowOf(cands[i][1]), config.filters)
          /\ ~PairPasses(uid, cands[i][1])

\* C9: recommend_for_user returns an empty result and raises no error when
\* the user id is not in the dataset, and when the user is known but the
\* enabled filters remove every recalled candidate.
C9_EmptyResultNotError ==
    (out.op = "recommend_for_user"
     /\ (out.uid \notin KnownIds \/ FilteredOut(out.uid, RecalledFor(out.uid)))) =>
        /\ out.error = NoError
        /\ out.rows = <<>>

\* the header has one of the embedding columns of the launch family
HasEmbeddingColumn(columns) == C_t_0 \in columns \/ C_e_0 \in columns

\* C11: when the dataset has no user_id column or no embedding column, or
\* the config document is malformed, __init__ ends with an error; a
\* pipeline whose construction failed serves no call.
C11_ConstructionAborts ==
    /\ (pipe.state # "unbuilt"
        /\ (C_user_id \notin launch.columns \/ ~HasEmbeddingColumn(launch.columns)
            \/ launch.config_doc # "ok")) =>
          /\ pipe.state = "failed"
          /\ out.op = "__init__"
          /\ out.error # NoError
    /\ pipe.state = "failed" => (out.op = "__init__" /\ pipe.served = 0)

\* construction has failed on a header with user_id but no t_* or e_* column
C11_Witness ==
    /\ pipe.state = "failed"
    /\ launch.config_doc = "ok"
    /\ C_user_id \in launch.columns
    /\ ~HasEmbeddingColumn(launch.columns)
    /\ out.error = "ValueError: no embedding columns"

\* C12: a call on the constructed pipeline leaves the dataset, the config
\* and the similarity table as they were, and what a recall call returned
\* is what the same call returns on the state it leaves behind.
C12_QueriesAreReadOnly ==
    [][pipe.state = "ready" =>
         /\ UNCHANGED <<df, config, sim_matrix>>
         /\ out'.op = "topk_for_user" =>
               out'.cands = topk_for_user(df', sim_matrix', np_ties', out'.uid, out'.k)
         /\ out'.op = "topk_for_all" =>
               out'.all = topk_for_all(df', sim_matrix', np_ties', out'.k)]_vars

\* a serving process has answered a second call, a recall for a known user
C12_Witness ==
    /\ launch.entry = "server"
    /\ pipe.served = 2
    /\ out.op = "topk_for_user"
    /\ out.uid \in KnownIds
    /\ out.cands # <<>>

\* what the gender cells of the filter family mean: the set of genders a
\* gender_interest cell names, and a gender in lower case
InterestMeaning(cell) ==
    CASE cell = StrCell(S_F) -> {<<"f">>}
      [] cell = StrCell(S_M) -> {<<"m">>}
      [] cell = StrCell(<<"f",","," ","m">>) -> {<<"f">>, <<"m">>}
      [] cell = StrCell(<<"A","n","y">>) -> {S_any}
      [] cell = StrCell(<<"N","B",",","a","n","y">>) -> {<<"n","b">>, S_any}
      [] OTHER -> {}

GenderMeaning(cell) ==
    CASE cell = StrCell(S_F) -> <<"f">>
      [] cell = StrCell(S_M) -> <<"m">>
      [] cell = StrCell(<<"f">>) -> <<"f">>
      [] OTHER -> <<"n","b">>

GenderShouldPass(u, c) ==
    \/ InterestMeaning(u.gender_interest) = {}
    \/ S_any \in InterestMeaning(u.gender_interest)
    \/ GenderMeaning(c.gender) \in InterestMeaning(u.gender_interest)

GenderOnly == config.filters = [NoFilters EXCEPT !.gender = TRUE]

\* C13: with the gender filter on, a user interested in "F" gets no male
\* candidate in a recommendation, every recommended pair passes the gender
\* rule, and with the gender filter alone a recalled pair gets a feature row
\* exactly when the interest set is empty, has "any" or has the candidate's
\* gender, letter case aside.
C13_GenderFilter ==
    /\ (out.op \in {"recommend_all", "recommend_for_user"} /\ config.filters.gender) =>
          \A i \in DOMAIN out.rows :
             /\ GenderShouldPass(RowOf(out.rows[i].user_id), RowOf(out.rows[i].match_id))
             /\ RowOf(out.rows[i].user_id).gender_interest = StrCell(S_F) =>
                   RowOf(out.rows[i].match_id).gender # StrCell(S_M)
    /\ (out.op = "build_features" /\ GenderOnly) =>
          /\ out.error = NoError
          /\ \A p \in RecalledPairs(out.all) :
                p \in RowPairs(out.rows) <=> GenderShouldPass(RowOf(p[1]), RowOf(p[2]))

\* with the gender filter alone, the user interested in "F" keeps a
\* candidate of gender "f" in a recommendation and has lost one of gender "M"
C13_Witness ==
    /\ GenderOnly
    /\ df[1].gender_interest = StrCell(S_F)
    /\ \/ /\ out.op = "recommend_for_user"
          /\ df[2].gender = StrCell(<<"f">>)
          /\ Len(out.rows) = 1
          /\ out.rows[1].match_id = IdOf(2)
       \/ /\ out.op = "build_features"
          /\ df[2].gender = StrCell(S_M)
          /\ <<IdOf(1), IdOf(2)>> \in RecalledPairs(out.all)
          /\ <<IdOf(1), IdOf(2)>> \notin RowPairs(out.rows)

\* what the age bounds of the filter family mean: the cells that are a
\* number, and the number
HasBound(cell) == cell \in {IntCell(26), IntCell(30), StrCell(<<"3","0">>)}

BoundValue(cell) == IF cell = IntCell(26) THEN 26 ELSE 30

AgeShouldPass(u, c) ==
    /\ HasBound(u.min_age_pref) => c.age.n >= BoundValue(u.min_age_pref)
    /\ HasBound(u.max_age_pref) => c.age.n <= BoundValue(u.max_age_pref)

AgeOnly == config.filters = [NoFilters EXCEPT !.age = TRUE]

\* C20: with the age filter on, a candidate passes exactly when its age is
\* within the user's inclusive [min_age_pref, max_age_pref], a bound that is
\* missing, empty or no number being no constraint; an age equal to a bound
\* passes.
C20_AgeFilter ==
    /\ (out.op \in {"recommend_all", "recommend_for_user"} /\ config.filters.age) =>
          \A i \in DOMAIN out.rows :
             AgeShouldPass(RowOf(out.rows[i].user_id), RowOf(out.rows[i].match_id))
    /\ (out.op = "build_features" /\ AgeOnly) =>
          /\ out.error = NoError
          /\ \A p \in RecalledPairs(out.all) :
                p \in RowPairs(out.rows) <=> AgeShouldPass(RowOf(p[1]), RowOf(p[2]))

\* a candidate whose age equals the lower bound, the upper bound being a
\* cell that is no number, has its feature row
C20_Witness ==
    /\ AgeOnly
    /\ out.op = "build_features"
    /\ df[1].min_age_pref = IntCell(26)
    /\ df[1].max_age_pref = NaN
    /\ df[2].age = IntCell(26)
    /\ <<IdOf(1), IdOf(2)>> \in RowPairs(out.rows)

\* the same-season peak 0.6 in the units of the calendar score
SamePeak == (ScoreDen \div 10) * 6

\* C14: two users born on "2000-01-01" get the calendar score 0.6 of the
\* same-season peak; no pair of valid dates gets more, and a pair half a
\* year apart (1 January and 1 July 2000) gets a positive score below it.
C14_SameSeasonPeak ==
    out.op = "build_features" =>
        /\ out.error = NoError
        /\ Len(out.rows) = 2
        /\ \A i \in DOMAIN out.rows :
              /\ out.rows[i].vedic_lite_score <= SamePeak
              /\ (df[1].birth_date = DateCell(2000, 1, 1)
                  /\ df[2].birth_date = DateCell(2000, 1, 1)) =>
                    out.rows[i].vedic_lite_score = SamePeak
              /\ (df[1].birth_date = DateCell(2000, 1, 1)
                  /\ df[2].birth_date = DateCell(2000, 7, 1)) =>
                    /\ out.rows[i].vedic_lite_score > 0
                    /\ out.rows[i].vedic_lite_score < SamePeak

\* the feature rows of two users both born on "2000-01-01"
C14_Witness ==
    /\ out.op = "build_features"
    /\ df[1].birth_date = StrCell(<<"2","0","0","0","-","0","1","-","0","1">>)
    /\ df[2].birth_date = df[1].birth_date
    /\ Len(out.rows) = 2
    /\ out.rows[1].vedic_lite_score = SamePeak

\* what recommend_for_user(1, topN = 1) has to return in the scenario
SoleMatchIsSecond ==
    /\ out.error = NoError
    /\ Len(out.rows) = 1
    /\ out.rows[1].match_id = df[2].user_id
    /\ out.rows[1].comp_index = config.comp_mix.energy

OnlyEnergyDiffers ==
    /\ df[2].humor_style = df[1].humor_style
    /\ df[2].risk_taking = df[1].risk_taking
    /\ df[3].social_energy = df[1].social_energy
    /\ sim_matrix[<<1, 3>>] <= sim_matrix[<<1, 2>>]
    /\ config.w_comp > 0 /\ config.w_sim >= 0

WeightsWithinOne(cfg) ==
    /\ cfg.w_sim >= 0 /\ cfg.w_comp >= 0 /\ cfg.w_vedic >= 0
    /\ cfg.w_sim + cfg.w_comp + cfg.w_vedic <= 100
    /\ cfg.low_conf_shrink >= 0 /\ cfg.low_conf_shrink <= 100

InputsNonNegative(row) ==
    /\ row.base_sim >= 0 /\ row.comp_index >= 0
    /\ row.vedic_lite_score >= 0 /\ row.age_gap >= 0

InputsWithinOne(row) ==
    /\ InputsNonNegative(row)
    /\ row.base_sim <= SimDen /\ row.comp_index <= 100 /\ row.vedic_lite_score <= ScoreDen

WithinUnit(score) == score >= 0 /\ score <= FinalDen

\* C16 as stated: with non-negative weights that sum to at most 1 (the age
\* penalty non-negative as well) and non-negative inputs, every final score
\* lies in [0, 1].
C16_ScoreWithinUnit ==
    (out.op = "score" /\ WeightsWithinOne(config) /\ config.age_penalty >= 0) =>
        \A i \in DOMAIN feats :
            InputsNonNegative(feats[i]) => WithinUnit(out.rows[i].final_score)

\* C16 (amended): with non-negative weights that sum to at most 1, no age
\* penalty and inputs within [0, 1], every final score lies in [0, 1]; a
\* similarity weight above 1 on a similarity it takes above 1, nothing being
\* subtracted, gives a final score above 1: the sum is not clamped.
C16_ScoreWithinUnitNoPenalty ==
    out.op = "score" =>
        \A i \in DOMAIN feats :
            /\ (WeightsWithinOne(config) /\ config.age_penalty = 0
                /\ InputsWithinOne(feats[i]))
                  => WithinUnit(out.rows[i].final_score)
            /\ (config.age_penalty * feats[i].age_gap = 0
                /\ InputsNonNegative(feats[i])
                /\ config.w_comp >= 0 /\ config.w_vedic >= 0
                /\ config.low_conf_shrink >= 0
                /\ config.w_sim * feats[i].base_sim > 100 * SimDen)
                  => out.rows[i].final_score > FinalDen

\* weights summing to exactly 1 without a penalty, on a row of positive
\* inputs whose final score is strictly inside (0, 1)
C16_Witness ==
    /\ out.op = "score"
    /\ WeightsWithinOne(config)
    /\ config.w_sim + config.w_comp + config.w_vedic = 100
    /\ config.age_penalty = 0
    /\ \E i \in DOMAIN feats :
          /\ InputsWithinOne(feats[i])
          /\ feats[i].base_sim > 0 /\ feats[i].comp_index > 0
          /\ feats[i].vedic_lite_score = ScoreDen
          /\ out.rows[i].final_score > 0
          /\ out.rows[i].final_score < FinalDen

\* the (match_id, compatibility_score) pairs of a result, in order, and the
\* rows of one user in a batch result
ScorePairs(rows) ==
    [i \in DOMAIN rows |->
        <<rows[i].match_id,
          IF "final_score" \in DOMAIN rows[i] THEN rows[i].final_score
          ELSE rows[i].compatibility_score>>]

RowsOfUser(rows, uid) == SelectSeq(rows, LAMBDA r : r.user_id = uid)

AgreeOn(single, batch, uid) ==
    /\ single.error = batch.error
    /\ ScorePairs(single.rows) = ScorePairs(RowsOfUser(batch.rows, uid))

\* C17: what recommend_for_user(u, topN) returns is what recommend_all(topN)
\* returns for u: the same (match_id, compatibility_score) rows in the same
\* order, and an error in the one exactly when in the other.
C17_SingleAgreesWithBatch ==
    out.op = "recommend_for_user" =>
        AgreeOn(out, recommend_all(ranked_all(df, config, sim_matrix, np_ties), out.k),
                out.uid)

\* the users of the traits table other than user_id, and the blend
\* 0.6*cosine(T) + 0.4*cosine(E) of two users held to [0, 1]
OtherSurveyIds(uid) ==
    {survey.traits[i].user_id : i \in DOMAIN survey.traits} \ {uid}

ClampedBlend(a, b) ==
    Max2(0, Min2(MatchDen,
        6 * _cosine(FirstRow(survey.traits, a).v, FirstRow(survey.traits, b).v)
        + 4 * _cosine(FirstRow(survey.engagement, a).v, FirstRow(survey.engagement, b).v)))

C19_TERanges ==
    (out.op = "compute_te" /\ out.error = NoError) =>
        /\ Len(out.rows) = 1
        /\ out.rows[1].astro.moon_sign \in 1..12
        /\ out.rows[1].astro.nakshatra_id \in 1..27
        /\ out.rows[1].astro.tithi_id \in 1..30
        /\ out.rows[1].astro.paksha \in {"Shukla", "Krishna"}
        /\ out.rows[1].astro.confidence \in 0..10
        /\ Len(out.rows[1].T) = 10
        /\ Len(out.rows[1].E) = 10
        /\ \A i \in 1..10 :
              /\ out.rows[1].T[i] >= 0 /\ out.rows[1].T[i] <= TEDen
              /\ out.rows[1].E[i] >= 0 /\ out.rows[1].E[i] <= TEDen

\* a result for a moon and a sun at the same longitude, their difference a
\* float just below 0: an elongation of 360.0 that is wrapped to tithi 1,
\* for a moon in the last sign, with the full confidence 0.9
C19_Witness ==
    /\ out.op = "compute_te"
    /\ out.error = NoError
    /\ person.tiny_negative
    /\ person.moon = person.sun
    /\ out.rows[1].astro.tithi_id = 1
    /\ out.rows[1].astro.moon_sign = 12
    /\ out.rows[1].astro.nakshatra_id = 26
    /\ out.rows[1].astro.confidence = 9

\* what the city cells of the filter family mean: the city a city_interest
\* cell asks for (<<>> for no preference, S_any for "any"), and a city in
\* lower case
CityPrefMeaning(cell) ==
    CASE cell = StrCell(<<"d","e","l","h","i">>) -> <<"d","e","l","h","i">>
      [] cell = StrCell(S_mumbai_padded) -> <<"m","u","m","b","a","i">>
      [] cell \in {StrCell(S_any), StrCell(<<"A","n","y">>)} -> S_any
      [] OTHER -> <<>>

CityMeaning(cell) ==
    IF cell = StrCell(S_Delhi) THEN <<"d","e","l","h","i">> ELSE <<"m","u","m","b","a","i">>

CityShouldPass(u, c) ==
    \/ CityPrefMeaning(u.city_interest) \in {<<>>, S_any}
    \/ CityPrefMeaning(u.city_interest) = CityMeaning(c.city)

CityOnly == config.filters = [NoFilters EXCEPT !.city = TRUE]

\* C21: with the city filter alone, build_features raises nothing, and a
\* recalled pair gets a feature row exactly when the user's city preference
\* is absent or "any" or is the candidate's city, letter case aside.
C21_CityFilter ==
    (out.op = "build_features" /\ CityOnly) =>
        /\ out.error = NoError
        /\ \A p \in RecalledPairs(out.all) :
              p \in RowPairs(out.rows) <=> CityShouldPass(RowOf(p[1]), RowOf(p[2]))

\* a birth time is present in a row: the cell holds text that is not blank
BirthTimePresent(r) == r.birth_time.kind = "str" /\ PyStrip(r.birth_time.s) # <<>>

\* both birth dates of a pair are dates
ValidDatePair(u, c) ==
    /\ DatesUsable(NormStr(u.birth_date), NormStr(c.birth_date))
    /\ ~hindu_date_from_dateRaises(NormStr(u.birth_date))
    /\ ~hindu_date_from_dateRaises(NormStr(c.birth_date))

\* the place/day-of-year baseline of a person, with the bonus when the
\* birth time is present
Baseline(r) == hindu_date_from_date(NormStr(r.birth_date), _city_geocode(r.birth_city))

PersonConfidence(r) ==
    IF BirthTimePresent(r) THEN Min2(ConfDen, Baseline(r) + TimeBonus) ELSE Baseline(r)

\* C22: the calendar confidence of a feature row is the smaller of the two
\* persons' confidences, a person's confidence being the baseline plus 0.15
\* (at most 1.0) when the birth time is present and the baseline alone when
\* the birth time is missing.
C22_BonusOnlyForPresentBirthTime ==
    (out.op = "build_features" /\ out.error = NoError) =>
        \A i \in DOMAIN out.rows :
            ValidDatePair(RowOf(out.rows[i].user_id), RowOf(out.rows[i].match_id)) =>
                out.rows[i].vedic_confidence =
                    Min2(PersonConfidence(RowOf(out.rows[i].user_id)),
                         PersonConfidence(RowOf(out.rows[i].match_id)))

\* what the cells of the complementarity family mean
LowCells == {StrCell(S_introvert), StrCell(S_Low_padded), StrCell(S_low)}

HighCells == {StrCell(S_extrovert), StrCell(S_Bold)}

DarkCells == {StrCell(S_Dark), StrCell(S_dark_but_light)}

WholesomeCells == {StrCell(S_Wholesome), StrCell(S_dark_but_light)}

LowAndHigh(a, b) == (a \in LowCells /\ b \in HighCells) \/ (a \in HighCells /\ b \in LowCells)

DarkAndWholesome(a, b) ==
    (a \in DarkCells /\ b \in WholesomeCells) \/ (a \in WholesomeCells /\ b \in DarkCells)

ConfiguredMix ==
    [energy |-> IF "energy" \in DOMAIN config.comp_mix THEN config.comp_mix.energy ELSE 34,
     humor |-> IF "humor" \in DOMAIN config.comp_mix THEN config.comp_mix.humor ELSE 33,
     risk |-> IF "risk" \in DOMAIN config.comp_mix THEN config.comp_mix.risk ELSE 33]

IndicatorsAsStated(row, u, c) ==
    /\ row.energy_comp = (IF LowAndHigh(u.social_energy, c.social_energy) THEN 1 ELSE 0)
    /\ row.risk_comp = (IF LowAndHigh(u.risk_taking, c.risk_taking) THEN 1 ELSE 0)
    /\ row.humor_comp = (IF DarkAndWholesome(u.humor_style, c.humor_style) THEN 1 ELSE 0)
    /\ row.comp_index = ConfiguredMix.energy * row.energy_comp
                        + ConfiguredMix.humor * row.humor_comp
                        + ConfiguredMix.risk * row.risk_comp

\* C23: in every feature row energy_comp and risk_comp are 1 exactly when one
\* user is in the low bucket and the other in the high bucket (a user of the
\* middle or unknown bucket is complementary to nobody), humor_comp is 1
\* exactly when one style is dark-leaning and the other wholesome-leaning,
\* and comp_index is the blend of the three with the configured weights, a
\* missing weight being 0.34, 0.33 or 0.33; a row is built for every
\* recalled pair.
C23_Complementarity ==
    out.op = "build_features" =>
        /\ out.error = NoError
        /\ RowPairs(out.rows) = RecalledPairs(out.all)
        /\ \A i \in DOMAIN out.rows :
              IndicatorsAsStated(out.rows[i], RowOf(out.rows[i].user_id),
                                 RowOf(out.rows[i].match_id))

\* a row of an introvert and an ambivert, cautious and bold, under a mix that
\* leaves the risk weight to its default: only risk_comp is set
C23_Witness ==
    /\ out.op = "build_features"
    /\ config.comp_mix = [humor |-> 40]
    /\ \E i \in DOMAIN out.rows :
          /\ RowOf(out.rows[i].user_id).social_energy = StrCell(S_introvert)
          /\ RowOf(out.rows[i].match_id).social_energy = StrCell(S_ambivert)
          /\ out.rows[i].energy_comp = 0
          /\ out.rows[i].risk_comp = 1
          /\ out.rows[i].humor_comp = 0
          /\ out.rows[i].comp_index = 33

\* the pairs of a candidate mapping whose user and candidate are both users
\* of the dataset
KnownPairs(all) == {p \in RecalledPairs(all) : p[1] \in KnownIds /\ p[2] \in KnownIds}

\* C24: build_features, given a candidate mapping with user ids and
\* candidate ids that are not in the dataset, raises nothing, builds no row
\* for them and builds the rows of all the other pairs; given the empty
\* mapping it returns no row.
C24_UnknownIdsSkipped ==
    out.op = "build_features_given" =>
        /\ out.error = NoError
        /\ RowPairs(out.rows) = KnownPairs(out.all)
        /\ Len(out.rows) = Cardinality(KnownPairs(out.all))
        /\ (out.all = <<>> => out.rows = <<>>)

\* the mapping with an unknown user and an unknown candidate among known
\* ones: the two rows of the known pairs are built
C24_Witness ==
    /\ out.op = "build_features_given"
    /\ Len(out.all) = 3
    /\ RecalledPairs(out.all) # KnownPairs(out.all)
    /\ RowPairs(out.rows) = {<<IdOf(1), IdOf(2)>>, <<IdOf(2), IdOf(1)>>}

\* C25: topk_for_user returns the empty sequence, and raises nothing, for a
\* user id that is not in the dataset, for a dataset of fewer than two users
\* and for k <= 0; topk_for_all has one entry per row of the dataset, in the
\* order of the rows, holding what topk_for_user returns for that user and
\* the same k.
C25_RecallEdges ==
    /\ out.op = "topk_for_user" =>
          /\ out.error = NoError
          /\ (out.uid \notin KnownIds \/ Len(df) < 2 \/ out.k <= 0) => out.cands = <<>>
    /\ out.op = "topk_for_all" =>
          /\ out.error = NoError
          /\ Len(out.all) = Len(df)
          /\ \A i \in DOMAIN out.all :
                /\ out.all[i].uid = df[i].user_id
                /\ out.all[i].cands = topk_for_user(df, sim_matrix, np_ties, df[i].user_id, out.k)
                /\ (Len(df) < 2 \/ out.k <= 0) => out.all[i].cands = <<>>

\* a call with a negative k for a user of a two-user dataset returned
\* nothing, and a call with k = 1 for the same dataset returned a candidate
C25_Witness ==
    /\ out.op = "topk_for_user"
    /\ out.uid \in KnownIds
    /\ Len(df) = 2
    /\ out.k = -1
    /\ out.cands = <<>>
    /\ topk_for_user(df, sim_matrix, np_ties, out.uid, 1) # <<>>

\* the signals of a feature row that describe the pair
PairSignals(row) ==
    <<row.tag_overlap, row.age_gap, row.energy_comp, row.humor_comp, row.risk_comp,
      row.comp_index, row.vedic_lite_score, row.vedic_confidence>>

\* C26: whenever build_features has built the row of (a, b) and the row of
\* (b, a), the two rows have the same tag_overlap, age_gap, energy_comp,
\* humor_comp, risk_comp, comp_index, calendar score and calendar confidence.
C26_SignalsSymmetric ==
    out.op = "build_features" =>
        \A i, j \in DOMAIN out.rows :
            (out.rows[i].user_id = out.rows[j].match_id
             /\ out.rows[i].match_id = out.rows[j].user_id)
                => PairSignals(out.rows[i]) = PairSignals(out.rows[j])

\* the rows of (11, 12) and (12, 11) for two users who differ in age, in
\* every complementarity cell and in birth date and birth time
C26_Witness ==
    /\ out.op = "build_features"
    /\ \E i, j \in DOMAIN out.rows :
          /\ out.rows[i].user_id = IdOf(1) /\ out.rows[i].match_id = IdOf(2)
          /\ out.rows[j].user_id = IdOf(2) /\ out.rows[j].match_id = IdOf(1)
          /\ RowOf(IdOf(1)).birth_date # RowOf(IdOf(2)).birth_date
          /\ RowOf(IdOf(1)).birth_time # RowOf(IdOf(2)).birth_time
          /\ out.rows[i].age_gap > 0
          /\ out.rows[i].humor_comp = 1
          /\ out.rows[i].vedic_confidence > 0

\* no pair survives recall and filtering: build_features on the recall of
\* the whole dataset raises nothing and builds no row
NoPairSurvives ==
    LET built == build_features(df, topk_for_all(df, sim_matrix, np_ties, config.recall_k),
                                config.comp_mix, config.filters)
    IN ~built.raised /\ built.rows = <<>>

\* C27: recommend_all returns an empty result and raises no error when no
\* pair survives recall and filtering.
C27_EmptyBatchNoError ==
    (out.op = "recommend_all" /\ NoPairSurvives) =>
        out.error = NoError /\ out.rows = <<>>

\* the ids that topk_for_user returns for the user of the call under the
\* recall_k of the config
RecalledIds ==
    {c[1] : c \in Range(topk_for_user(df, sim_matrix, np_ties, out.uid, config.recall_k))}

\* C28: every candidate in the result of recommend_for_user(u, topN) is one
\* of topk_for_user(u, recall_k), and the result has at most
\* min(topN, recall_k, N - 1) rows: a user outside the recalled top-k never
\* appears, whatever the filters do to the recalled ones.
C28_ResultWithinRecall ==
    out.op = "recommend_for_user" =>
        /\ out.error = NoError
        /\ \A i \in DOMAIN out.rows : out.rows[i].match_id \in RecalledIds
        /\ Len(out.rows) <= Min2(out.k, Min2(config.recall_k, Len(df) - 1))

\* recall_k = 1 and the gender filter on: the one recalled candidate of user
\* 11 is a woman and is filtered out, the user outside the top-1 is a man who
\* would pass, and the result is empty although topN >= 1
C28_Witness ==
    /\ out.op = "recommend_for_user"
    /\ out.k >= 1
    /\ config.recall_k = 1
    /\ config.filters.gender
    /\ \E c \in KnownIds \ {out.uid} :
          /\ c \notin RecalledIds
          /\ RowOf(c).gender = StrCell(<<"M">>)
    /\ \A c \in RecalledIds : RowOf(c).gender = StrCell(<<"F">>)
    /\ out.rows = <<>>

\* the columns of a row that the final score is said to depend on
ScoreSignals(row) ==
    <<row.base_sim, row.comp_index, row.vedic_lite_score, row.vedic_confidence, row.age_gap>>

\* the config with the legacy novelty and prior weights and values at their
\* defaults
WithoutLegacy(cfg) ==
    [cfg EXCEPT !.w_nov = 0, !.w_pri = 0, !.novelty_value = 5, !.prior_value = 0]

\* C29: two rows of a scored table that agree in base_sim, comp_index,
\* calendar score, calendar confidence and age_gap have the same final score,
\* whatever their tag_overlap and their three indicators; and the final score
\* of every row is what the same config with the legacy novelty and prior
\* weights and values at their defaults gives.
C29_ScoreIgnoresOtherColumns ==
    out.op = "score" =>
        /\ \A i, j \in DOMAIN out.rows :
              ScoreSignals(out.rows[i]) = ScoreSignals(out.rows[j])
                  => out.rows[i].final_score = out.rows[j].final_score
        /\ \A i \in DOMAIN out.rows :
              out.rows[i].final_score
                  = AdditiveRanker_score(WithoutLegacy(config), feats)[i].final_score

\* a scored table whose two rows differ in tag_overlap and in the indicator
\* behind the comp_index, under nonzero legacy weights and values
C29_Witness ==
    /\ out.op = "score"
    /\ Len(out.rows) = 2
    /\ config.w_nov > 0 /\ config.w_pri > 0 /\ config.novelty_value = 90
    /\ out.rows[1].novelty = 90
    /\ out.rows[1].tag_overlap # out.rows[2].tag_overlap
    /\ out.rows[1].humor_comp # out.rows[2].humor_comp
    /\ out.rows[1].final_score = out.rows[2].final_score
    /\ out.rows[1].final_score # 0

\* 0.488 in 1/ConfDen
LowestBaseline == (ConfDen \div 1000) * 488

\* C30: under the default calendar settings every feature row of two valid
\* birth dates has a calendar confidence of at least 0.488, hence of at least
\* the threshold 0.30, every other row has calendar score 0, and the final
\* score of every recommended row is what a shrink factor of 1 gives.
C30_ShrinkNeverMatters ==
    /\ out.op = "build_features" =>
          /\ out.error = NoError
          /\ \A i \in DOMAIN out.rows :
                IF ValidDatePair(RowOf(out.rows[i].user_id), RowOf(out.rows[i].match_id))
                THEN /\ out.rows[i].vedic_confidence >= LowestBaseline
                     /\ out.rows[i].vedic_confidence >= Threshold(config)
                ELSE out.rows[i].vedic_lite_score = 0
    /\ out.op = "recommend_for_user" =>
          /\ out.error = NoError
          /\ \A i \in DOMAIN out.rows :
                /\ out.rows[i].vedic_confidence >= Threshold(config)
                   \/ out.rows[i].vedic_lite_score = 0
                /\ out.rows[i].final_score * 100
                   = (config.w_sim * out.rows[i].base_sim * (FinalDen \div (100 * SimDen))
                      + config.w_comp * out.rows[i].comp_index * (FinalDen \div (100 * 100))
                      - config.age_penalty * out.rows[i].age_gap * (FinalDen \div 100)) * 100
                     + config.w_vedic * 100 * 100 * out.rows[i].vedic_lite_score

\* a recommended row of a pair with a birth date that is no date: its
\* confidence 0 is below the threshold, the shrunk weight applies, and the
\* calendar score it multiplies is 0
C30_Witness ==
    /\ out.op = "recommend_for_user"
    /\ config.min_conf = 30 /\ config.low_conf_shrink = 50
    /\ \E i \in DOMAIN out.rows :
          /\ ~ValidDatePair(RowOf(out.rows[i].user_id), RowOf(out.rows[i].match_id))
          /\ RowOf(out.rows[i].user_id).birth_date = StrCell(S_not_a_date)
          /\ out.rows[i].vedic_confidence < Threshold(config)
          /\ out.rows[i].vedic_lite_score = 0
====
